---- MODULE Spec2Model ----
(***************************************************************************)
(* Decision engine of the IHSG analysis application: portfolio allocator,  *)
(* recommendation synthesizer and fundamental scorer.                       *)
(*                                                                         *)
(* Python dicts are functions whose DOMAIN is the set of keys present, so  *)
(* that d.get(k, default) is Get(d, k, default) and d[k] on a missing key  *)
(* is an error.  The allocator's money and percentages are binary floating *)
(* point numbers, rounded to nearest (ties to even) after every operation  *)
(* as Python rounds them, with a significand of Precision bits.  The       *)
(* synthesizer rounds what it returns to two decimals: its prices and      *)
(* scores are kept in hundredths, risk profile fractions in percent (0.05  *)
(* is 5).                                                                  *)
(***************************************************************************)
EXTENDS Integers, Sequences, FiniteSets, TLC

VARIABLES
    risk_profiles,              \* RecommendationEngine.risk_profiles
    pc,                         \* position of the caller / running handler
    stocks_analysis,            \* argument of generate_portfolio_recommendations
    total_capital,              \* argument, a binary floating point number
    risk_profile,               \* argument: the profile name
    qualified_stocks,           \* local: filtered and sorted candidates
    idx,                        \* local: index of the next candidate of the for loop
    portfolio_recommendations,  \* local: the positions allocated so far
    remaining_capital,          \* local, a binary floating point number
    technical_analysis,         \* argument of the synthesizer: the technical verdict
    fundamental_analysis,       \* argument of the synthesizer: the fundamental score card
    combined_score,             \* value of the last _calculate_combined_score call
    final_recommendation,       \* value of the last _get_final_recommendation call
    risk_management,            \* value of the last _calculate_risk_management call
    df,                         \* argument of the technical analysis: the price frame
    indicators,                 \* what self.indicators reports for the last bars of df
    signal_arg,                 \* argument `signal` of calculate_price_targets
    call,                       \* the public method that is running or ran last
    result,                     \* value returned (or exception raised) by that method
    passed,                     \* the caller's own record of the objects it passed
    previous                    \* value of an earlier invocation with the same arguments

portfolio_vars == <<stocks_analysis, total_capital, qualified_stocks, idx,
                    portfolio_recommendations, remaining_capital>>

stage_vars == <<combined_score, final_recommendation, risk_management>>

synth_vars == <<technical_analysis, fundamental_analysis, combined_score,
                final_recommendation, risk_management>>

technical_vars == <<df, indicators, signal_arg>>

vars == <<risk_profiles, pc, risk_profile, portfolio_vars, synth_vars, technical_vars,
          call, result, passed, previous>>

-----------------------------------------------------------------------------
(* Bounds of the model *)

MaxStocks == 3      \* longest candidate list with freely chosen scores
MaxLong == 22       \* longest candidate list of the cyclic family
Precision == 9      \* bits of the significand of a floating point number

-----------------------------------------------------------------------------
(* Python values *)

EmptyDict == [k \in {} |-> 0]

Get(d, k, default) == IF k \in DOMAIN d THEN d[k] ELSE default

\* Python's None, and a value that has not been computed yet
None == [none |-> TRUE]

\* a number where the code may also be handed a dict
Float(n) == [float |-> n]

IsFloat(v) == DOMAIN v = {"float"}

\* a raised exception in place of a returned value
Raise(name) == [exception |-> name]

Raised(v) == "exception" \in DOMAIN v

\* round(n / d) for d > 0
RoundDiv(n, d) == (2 * n + d) \div (2 * d)

Min(a, b) == IF a <= b THEN a ELSE b

\* the lower of the two where the higher is wanted
Max_Lower(a, b) == IF a <= b THEN a ELSE b

Max(a, b) == IF a >= b THEN a ELSE b

-----------------------------------------------------------------------------
(* Python's float: a binary floating point number m * 2^e whose significand  *)
(* m has exactly Precision bits (2^(Precision-1) <= |m| < 2^Precision), or   *)
(* zero.  Every operation returns the representable number nearest to the    *)
(* exact result, ties going to the even significand.                         *)

Zero == [m |-> 0, e |-> 0]

\* number of binary digits of n >= 0
RECURSIVE BitLength(_)
BitLength(n) == IF n = 0 THEN 0 ELSE 1 + BitLength(n \div 2)

\* the integer nearest to n / d for n >= 0 and d > 0, ties to even
RoundHalfEven(n, d) ==
    LET q == n \div d
        r == n % d
    IN IF 2 * r > d \/ (2 * r = d /\ q % 2 = 1) THEN q + 1 ELSE q

\* the float nearest to n * 2^e
Fl(n, e) ==
    LET a == IF n < 0 THEN 0 - n ELSE n
        len == BitLength(a)
        k == len - Precision
        q == IF k > 0 THEN RoundHalfEven(a, 2^k) ELSE a * 2^(0 - k)
        m == IF q = 2^Precision THEN q \div 2 ELSE q
        x == IF q = 2^Precision THEN e + k + 1 ELSE e + k
    IN IF n = 0 THEN Zero
       ELSE [m |-> IF n < 0 THEN 0 - m ELSE m, e |-> x]

\* float(n) of an int
FromInt(n) == Fl(n, 0)

\* a * b
Mul(a, b) == Fl(a.m * b.m, a.e + b.e)

\* a - b; an operand below a quarter of the other's last place cannot change it
Sub(a, b) ==
    LET lo == IF a.e <= b.e THEN a.e ELSE b.e
    IN IF b.m = 0 THEN a
       ELSE IF a.m = 0 THEN [m |-> 0 - b.m, e |-> b.e]
       ELSE IF a.e - b.e > Precision + 1 THEN a
       ELSE IF b.e - a.e > Precision + 1 THEN [m |-> 0 - b.m, e |-> b.e]
       ELSE Fl(a.m * 2^(a.e - lo) - b.m * 2^(b.e - lo), lo)

\* a / b for a >= 0 and b > 0
Div(a, b) ==
    LET s == IF a.m >= b.m THEN Precision - 1 ELSE Precision
    IN Fl(RoundHalfEven(a.m * 2^s, b.m), a.e - b.e - s)

\* a < b
Less(a, b) ==
    IF a.m > 0 /\ b.m > 0 THEN a.e < b.e \/ (a.e = b.e /\ a.m < b.m)
    ELSE IF a.m < 0 /\ b.m < 0 THEN b.e < a.e \/ (a.e = b.e /\ a.m < b.m)
    ELSE a.m < b.m

\* a <= b
LessEq(a, b) == ~Less(b, a)

\* min(a, b)
MinOf(a, b) == IF Less(b, a) THEN b ELSE a

\* the float literal of a fraction given in percent: 0.05 is the float nearest to 5/100
Fraction(percent) == Div(FromInt(percent), FromInt(100))

-----------------------------------------------------------------------------
(* RecommendationEngine.__init__ *)

\* a table whose conservative profile takes profit at 30 % with a stop at 8 %
InitRiskProfiles_WideTakeProfit ==
    [conservative |-> [max_position_size |-> 5, stop_loss |-> 8, take_profit |-> 30,
                       max_portfolio_risk |-> 10, min_score |-> 70],
     moderate     |-> [max_position_size |-> 8, stop_loss |-> 10, take_profit |-> 20,
                       max_portfolio_risk |-> 15, min_score |-> 60],
     aggressive   |-> [max_position_size |-> 12, stop_loss |-> 15, take_profit |-> 30,
                       max_portfolio_risk |-> 20, min_score |-> 50]]

\* a table whose aggressive profile asks for no minimum score
InitRiskProfiles_NoMinimum ==
    [conservative |-> [max_position_size |-> 5, stop_loss |-> 8, take_profit |-> 15,
                       max_portfolio_risk |-> 10, min_score |-> 70],
     moderate     |-> [max_position_size |-> 8, stop_loss |-> 10, take_profit |-> 20,
                       max_portfolio_risk |-> 15, min_score |-> 60],
     aggressive   |-> [max_position_size |-> 12, stop_loss |-> 15, take_profit |-> 30,
                       max_portfolio_risk |-> 20, min_score |-> 0]]

InitRiskProfiles ==
    [conservative |-> [max_position_size |-> 5, stop_loss |-> 8, take_profit |-> 15,
                       max_portfolio_risk |-> 10, min_score |-> 70],
     moderate     |-> [max_position_size |-> 8, stop_loss |-> 10, take_profit |-> 20,
                       max_portfolio_risk |-> 15, min_score |-> 60],
     aggressive   |-> [max_position_size |-> 12, stop_loss |-> 15, take_profit |-> 30,
                       max_portfolio_risk |-> 20, min_score |-> 50]]

\* self.risk_profiles.get(risk_profile, self.risk_profiles['moderate'])
RiskSettings(profiles, name) == Get(profiles, name, profiles["moderate"])

\* the profile names a caller passes: the three built-in ones and an unknown one
ProfileNames == {"conservative", "moderate", "aggressive", "balanced"}

-----------------------------------------------------------------------------
(* Inputs of the portfolio allocator *)

Tickers == <<"T01", "T02", "T03", "T04", "T05", "T06", "T07", "T08", "T09", "T10",
             "T11", "T12", "T13", "T14", "T15", "T16", "T17", "T18", "T19", "T20",
             "T21", "T22", "T23", "T24", "T25", "T26", "T27", "T28", "T29", "T30">>

TickerIndex(t) == CHOOSE i \in 1..Len(Tickers) : Tickers[i] = t

\* combined scores of the freely chosen lists; -1 stands for an analysis
\* without a 'combined_score' entry
NoScore == -1

Scores == {NoScore, 55, 65, 70, 85, 90}

\* scores of the long lists: all of them qualify under every profile
CycleScores == <<85, 70, 90>>

\* the i-th analysis of the caller's list
Stock(i, s) ==
    IF s = NoScore
    THEN [ticker |-> Tickers[i]]
    ELSE [ticker |-> Tickers[i], combined_score |-> [combined_score |-> s]]

ShortLists ==
    UNION { { [i \in 1..n |-> Stock(i, f[i])] : f \in [1..n -> Scores] } : n \in 0..MaxStocks }

LongLists ==
    { [i \in 1..n |-> Stock(i, CycleScores[((i + o) % Len(CycleScores)) + 1])] :
        n \in (MaxStocks + 1)..MaxLong, o \in 0..(Len(CycleScores) - 1) }

StockLists == ShortLists \cup LongLists

\* total capital in currency units (100 is the 100,000,000 of the scenario
\* in units of 1,000,000); a caller may also pass nothing or a debt
Capitals == {-3, 0, 3, 100}

-----------------------------------------------------------------------------
(* generate_portfolio_recommendations *)

\* stock.get('combined_score', {}).get('combined_score', 0)
StockScore(stock) == Get(Get(stock, "combined_score", EmptyDict), "combined_score", 0)

\* a filter that lets every candidate through
FilterQualified_NoFilter(stocks, risk_settings) == stocks

\* the list comprehension that keeps the stocks reaching min_score
RECURSIVE FilterQualified(_, _)
FilterQualified(stocks, risk_settings) ==
    IF stocks = <<>> THEN <<>>
    ELSE LET rest == FilterQualified(Tail(stocks), risk_settings)
         IN IF StockScore(Head(stocks)) >= risk_settings.min_score
            THEN <<Head(stocks)>> \o rest
            ELSE rest

\* an insertion that puts an element in front of the elements of equal key
RECURSIVE InsertDesc_Unstable(_, _)
InsertDesc_Unstable(sorted, stock) ==
    IF sorted = <<>> THEN <<stock>>
    ELSE IF StockScore(Head(sorted)) > StockScore(stock)
         THEN <<Head(sorted)>> \o InsertDesc_Unstable(Tail(sorted), stock)
         ELSE <<stock>> \o sorted

\* insertion point of a list.sort(key, reverse=True): the sort is stable, so
\* an element goes behind every element whose key is >= its own
RECURSIVE InsertDesc(_, _)
InsertDesc(sorted, stock) ==
    IF sorted = <<>> THEN <<stock>>
    ELSE IF StockScore(Head(sorted)) >= StockScore(stock)
         THEN <<Head(sorted)>> \o InsertDesc(Tail(sorted), stock)
         ELSE <<stock>> \o sorted

\* qualified_stocks.sort(key=combined score, reverse=True)
RECURSIVE SortDesc(_)
SortDesc(stocks) ==
    IF stocks = <<>> THEN <<>>
    ELSE InsertDesc(SortDesc(SubSeq(stocks, 1, Len(stocks) - 1)), stocks[Len(stocks)])

\* max_position = total_capital * risk_settings['max_position_size']
MaxPosition(capital, risk_settings) ==
    Mul(capital, Fraction(risk_settings.max_position_size))

\* a position that ignores the remaining capital
PositionSize_NoMin(capital, remaining, risk_settings) ==
    MaxPosition(capital, risk_settings)

\* a position that ignores the per-position cap
PositionSize_NoCap(capital, remaining, risk_settings) == remaining

\* a position that is dropped when the full cap is no longer affordable
PositionSize_AllOrNothing(capital, remaining, risk_settings) ==
    IF LessEq(MaxPosition(capital, risk_settings), remaining)
    THEN MaxPosition(capital, risk_settings)
    ELSE Zero

\* position_size = min(max_position, remaining_capital)
PositionSize(capital, remaining, risk_settings) ==
    MinOf(MaxPosition(capital, risk_settings), remaining)

\* the dict appended to portfolio_recommendations
Position(stock, position_size, capital) ==
    [ticker |-> Get(stock, "ticker", "UNKNOWN"),
     recommendation |-> Get(stock, "recommendation", EmptyDict),
     position_size |-> position_size,
     position_percentage |-> Mul(Div(position_size, capital), FromInt(100)),
     combined_score |-> StockScore(stock)]

\* tiers whose bounds on the largest position are exclusive
DiversificationTier_Exclusive(max_position, number_of_positions) ==
    IF Less(max_position, FromInt(5)) /\ number_of_positions >= 15
    THEN <<100, "Excellent">>
    ELSE IF Less(max_position, FromInt(8)) /\ number_of_positions >= 10
    THEN <<80, "Good">>
    ELSE IF Less(max_position, FromInt(12)) /\ number_of_positions >= 7
    THEN <<60, "Moderate">>
    ELSE IF Less(max_position, FromInt(15)) /\ number_of_positions >= 5
    THEN <<40, "Poor">>
    ELSE <<20, "Very Poor">>

\* the (score, status) of _calculate_diversification_score
DiversificationTier(max_position, number_of_positions) ==
    IF LessEq(max_position, FromInt(5)) /\ number_of_positions >= 15
    THEN <<100, "Excellent">>
    ELSE IF LessEq(max_position, FromInt(8)) /\ number_of_positions >= 10
    THEN <<80, "Good">>
    ELSE IF LessEq(max_position, FromInt(12)) /\ number_of_positions >= 7
    THEN <<60, "Moderate">>
    ELSE IF LessEq(max_position, FromInt(15)) /\ number_of_positions >= 5
    THEN <<40, "Poor">>
    ELSE <<20, "Very Poor">>

\* _calculate_diversification_score
CalculateDiversificationScore(recommendations) ==
    IF recommendations = <<>> THEN [score |-> 0, status |-> "No positions"]
    ELSE
    LET percentages == { recommendations[i].position_percentage :
                           i \in 1..Len(recommendations) }
        max_position == CHOOSE x \in percentages : \A y \in percentages : LessEq(y, x)
        number_of_positions == Len(recommendations)
        tier == DiversificationTier(max_position, number_of_positions)
    IN [score |-> tier[1],
        status |-> tier[2],
        max_position |-> max_position,
        number_of_positions |-> number_of_positions,
        recommendation |-> IF number_of_positions < 10
                           THEN "Consider adding more positions"
                           ELSE "Good diversification"]

\* the objects behind the arguments of the two public methods and the
\* engine's table, as the caller sees them
Objects(stocks, technical, fundamental, profiles) ==
    [stocks_analysis |-> stocks,
     technical_analysis |-> technical,
     fundamental_analysis |-> fundamental,
     risk_profiles |-> profiles]

\* an entry that sorts the caller's list itself before it filters
PortfolioCall_SortsInPlace ==
    /\ pc = "idle"
    /\ \E stocks \in StockLists, capital \in Capitals, name \in ProfileNames :
          /\ passed' = Objects(stocks, technical_analysis, fundamental_analysis,
                               risk_profiles)
          /\ stocks_analysis' = SortDesc(stocks)
          /\ total_capital' = FromInt(capital)
          /\ risk_profile' = name
          /\ qualified_stocks' =
                FilterQualified(SortDesc(stocks), RiskSettings(risk_profiles, name))
    /\ portfolio_recommendations' = <<>>
    /\ remaining_capital' = total_capital'
    /\ idx' = 1
    /\ result' = None
    /\ call' = "generate_portfolio_recommendations"
    /\ pc' = "alloc"
    /\ UNCHANGED <<technical_vars, previous>>
    /\ UNCHANGED <<risk_profiles, synth_vars>>

\* entry of the handler: filter, sort, initialise the loop
PortfolioCall ==
    /\ pc = "idle"
    /\ \E stocks \in StockLists, capital \in Capitals, name \in ProfileNames :
          /\ passed' = Objects(stocks, technical_analysis, fundamental_analysis,
                               risk_profiles)
          /\ stocks_analysis' = stocks
          /\ total_capital' = FromInt(capital)
          /\ risk_profile' = name
          /\ qualified_stocks' =
                SortDesc(FilterQualified(stocks, RiskSettings(risk_profiles, name)))
    /\ portfolio_recommendations' = <<>>
    /\ remaining_capital' = total_capital'
    /\ idx' = 1
    /\ result' = None
    /\ call' = "generate_portfolio_recommendations"
    /\ pc' = "alloc"
    /\ UNCHANGED <<technical_vars, previous>>
    /\ UNCHANGED <<risk_profiles, synth_vars>>

\* one iteration of `for stock in qualified_stocks` that does not break
AllocateStep ==
    /\ pc = "alloc"
    /\ idx <= Len(qualified_stocks)
    /\ Less(Zero, remaining_capital)
    /\ LET stock == qualified_stocks[idx]
           position_size == PositionSize(total_capital, remaining_capital,
                                         RiskSettings(risk_profiles, risk_profile))
       IN IF Less(Zero, position_size)
          THEN /\ portfolio_recommendations' =
                     Append(portfolio_recommendations,
                            Position(stock, position_size, total_capital))
               /\ remaining_capital' = Sub(remaining_capital, position_size)
          ELSE UNCHANGED <<portfolio_recommendations, remaining_capital>>
    /\ idx' = idx + 1
    /\ UNCHANGED <<technical_vars, previous>>
    /\ UNCHANGED <<risk_profiles, pc, stocks_analysis, total_capital, risk_profile,
                   qualified_stocks, synth_vars, call, result>>
    /\ UNCHANGED passed

\* `if remaining_capital <= 0: break`
AllocateBreak ==
    /\ pc = "alloc"
    /\ idx <= Len(qualified_stocks)
    /\ LessEq(remaining_capital, Zero)
    /\ pc' = "epilogue"
    /\ UNCHANGED <<technical_vars, previous>>
    /\ UNCHANGED <<risk_profiles, risk_profile, portfolio_vars, synth_vars, call, result>>
    /\ UNCHANGED passed

\* the for loop runs out of candidates
AllocateExhausted ==
    /\ pc = "alloc"
    /\ idx > Len(qualified_stocks)
    /\ pc' = "epilogue"
    /\ UNCHANGED <<technical_vars, previous>>
    /\ UNCHANGED <<risk_profiles, risk_profile, portfolio_vars, synth_vars, call, result>>
    /\ UNCHANGED passed

\* the dict the handler returns
PortfolioReturn ==
    /\ pc = "epilogue"
    /\ result' = [portfolio_recommendations |-> portfolio_recommendations,
                  total_allocated |-> Sub(total_capital, remaining_capital),
                  remaining_capital |-> remaining_capital,
                  number_of_positions |-> Len(portfolio_recommendations),
                  risk_profile |-> risk_profile,
                  diversification_score |->
                      CalculateDiversificationScore(portfolio_recommendations)]
    /\ pc' = "returned"
    /\ UNCHANGED <<technical_vars, previous>>
    /\ UNCHANGED <<risk_profiles, risk_profile, portfolio_vars, synth_vars, call>>
    /\ UNCHANGED passed

\* the caller invokes the handler a second time with the same arguments
PortfolioAgain ==
    /\ pc = "returned"
    /\ call = "generate_portfolio_recommendations"
    /\ previous = None
    /\ previous' = result
    /\ qualified_stocks' =
          SortDesc(FilterQualified(stocks_analysis,
                                   RiskSettings(risk_profiles, risk_profile)))
    /\ portfolio_recommendations' = <<>>
    /\ remaining_capital' = total_capital
    /\ idx' = 1
    /\ result' = None
    /\ pc' = "alloc"
    /\ UNCHANGED <<risk_profiles, risk_profile, stocks_analysis, total_capital,
                   synth_vars, technical_vars, call>>
    /\ UNCHANGED passed

-----------------------------------------------------------------------------
(* The technical verdict and the score card handed to the synthesizer *)

\* Scores, confidences and strengths are in hundredths of a point, prices and
\* ATR in hundredths of a currency unit.  An optional level (a number or
\* Python's None) is a sequence of at most one number.

\* sr_levels.get(key, default): identify_support_resistance always sets the
\* key, so its value is returned even when it is None
LevelOr(sr_levels, key, default) ==
    IF key \in DOMAIN sr_levels THEN sr_levels[key] ELSE <<default>>

\* the targets dict calculate_price_targets builds, before the percentage
\* entries are added; atr_last is the last ATR value, <<>> when it is NaN
BuildTargets(current_price, atr_last, signal, sr_levels) ==
    LET atr_value == IF atr_last = <<>> THEN (current_price * 2) \div 100
                     ELSE atr_last[1]
        base == [current_price |-> current_price, atr |-> atr_value]
    IN IF signal = "BUY" THEN
           base @@
           [take_profit_1 |-> current_price + atr_value * 2,
            take_profit_2 |-> current_price + atr_value * 3,
            take_profit_3 |-> LevelOr(sr_levels, "nearest_resistance",
                                      (current_price * 110) \div 100),
            stop_loss |-> current_price - (atr_value * 3) \div 2,
            stop_loss_2 |-> LevelOr(sr_levels, "nearest_support",
                                    (current_price * 95) \div 100)]
       ELSE IF signal = "SELL" THEN
           base @@
           [take_profit_1 |-> current_price - atr_value * 2,
            take_profit_2 |-> current_price - atr_value * 3,
            take_profit_3 |-> LevelOr(sr_levels, "nearest_support",
                                      (current_price * 90) \div 100),
            stop_loss |-> current_price + (atr_value * 3) \div 2,
            stop_loss_2 |-> LevelOr(sr_levels, "nearest_resistance",
                                    (current_price * 105) \div 100)]
       ELSE
           base @@
           [support |-> LevelOr(sr_levels, "nearest_support",
                                (current_price * 95) \div 100),
            resistance |-> LevelOr(sr_levels, "nearest_resistance",
                                   (current_price * 105) \div 100)]

\* the support/resistance block: no level found, or one on each side of 100.00
SupportResistances ==
    { [nearest_resistance |-> <<>>, nearest_support |-> <<>>],
      [nearest_resistance |-> <<11000>>, nearest_support |-> <<9500>>] }

\* last ATR values: NaN, a flat series, 2.00 and 10.00
AtrValues == { <<>>, <<0>>, <<200>>, <<1000>> }

\* the 'signal_analysis' blocks: (signal, confidence) as generate_signals
\* returns them, with and without an RSI tag
SignalAnalyses ==
    { [signal |-> "HOLD", confidence |-> 0, reasons |-> <<>>],
      [signal |-> "HOLD", confidence |-> 5000, signals |-> <<>>],
      [signal |-> "BUY", confidence |-> 6667, signals |-> <<"RSI_OVERSOLD">>],
      [signal |-> "BUY", confidence |-> 10000, signals |-> <<>>],
      [signal |-> "SELL", confidence |-> 6667, signals |-> <<"RSI_OVERBOUGHT">>],
      [signal |-> "SELL", confidence |-> 10000, signals |-> <<>>],
      [signal |-> "BUY", confidence |-> 7500] }

\* the 'trend_analysis' blocks as analyze_trend returns them
TrendAnalyses ==
    { [trend |-> "UNKNOWN", strength |-> 0, signals |-> <<>>],
      [trend |-> "NEUTRAL", strength |-> 5000],
      [trend |-> "BULLISH", strength |-> 10000],
      [trend |-> "BULLISH", strength |-> 8000],
      [trend |-> "BEARISH", strength |-> 6667] }

\* the 'price_targets' blocks of a verdict with the given signal: empty
\* (fewer than 20 bars), a zero price, or the targets around a close of 100.00
PriceTargetsFor(signal) ==
    { EmptyDict, [current_price |-> 0] } \cup
    { BuildTargets(10000, atr, signal, sr) :
        atr \in AtrValues, sr \in SupportResistances }

\* the technical verdicts: complete ones, and dicts with blocks left out
TechnicalVerdicts ==
    UNION { { [signal_analysis |-> sa, trend_analysis |-> tr, price_targets |-> pt] :
                  tr \in TrendAnalyses, pt \in PriceTargetsFor(sa.signal) } :
              sa \in SignalAnalyses }
    \cup { [signal_analysis |-> sa] : sa \in SignalAnalyses }
    \cup { [trend_analysis |-> tr] : tr \in TrendAnalyses }
    \cup { EmptyDict }

\* the score cards: (total score, recommendation) pairs, and an empty dict
ScoreCards ==
    { [fundamental_score |-> [total_score |-> c[1]],
       fundamental_recommendation |-> [recommendation |-> c[2]]] :
        c \in { <<2000, "SELL">>, <<5500, "WEAK_HOLD">>, <<6500, "HOLD">>,
                <<7500, "BUY">>, <<8500, "BUY">>, <<10000, "STRONG_BUY">> } }
    \cup { EmptyDict }

-----------------------------------------------------------------------------
(* TechnicalAnalysis *)

\* A price frame is seen through what the analysis reads of it: the number of
\* bars, the last close, the last value of the ATR series (<<>> when it is
\* NaN) and the highs / lows that equal the centred rolling extreme.  The
\* indicator library is outside the repository; what it reports for the last
\* bars is an input: the vote of each of the five indicators of
\* generate_signals (RSI, MACD cross, Bollinger, MA cross, stochastic) and the
\* three readings of analyze_trend.

NoFrame == [bars |-> 0, close |-> 0, atr |-> <<>>, highs |-> {}, lows |-> {}]

NoIndicators == [votes |-> <<"NONE", "NONE", "NONE", "NONE", "NONE">>,
                 ma |-> "NAN", macd |-> "NAN", price_change_20d |-> 0]

\* numbers of bars on both sides of the 20-, 40- and 50-bar thresholds
BarCounts == {10, 19, 20, 21, 40, 41, 49, 50, 51}

\* the local highs and lows of a frame whose last close is 100.00
Extremes ==
    { [highs |-> {}, lows |-> {}],
      [highs |-> {11000, 12000}, lows |-> {9000, 9500}],
      [highs |-> {9800}, lows |-> {10200}],
      [highs |-> {10100, 10200, 10300, 10400, 10500, 10600, 10700},
       lows |-> {9300, 9400, 9500, 9600, 9700, 9800, 9900}] }

DataFrames ==
    { NoFrame } \cup
    { [bars |-> n, close |-> 10000, atr |-> a, highs |-> e.highs, lows |-> e.lows] :
        n \in BarCounts, a \in AtrValues, e \in Extremes }

IndicatorVotes ==
    { <<"NONE", "NONE", "NONE", "NONE", "NONE">>,
      <<"BUY", "BUY", "SELL", "NONE", "NONE">>,
      <<"SELL", "NONE", "SELL", "BUY", "NONE">>,
      <<"BUY", "BUY", "BUY", "BUY", "BUY">>,
      <<"BUY", "NONE", "NONE", "NONE", "SELL">>,
      <<"NONE", "NONE", "NONE", "NONE", "SELL">> }

\* (MA_Short against MA_Long, MACD against its signal line, 20-bar price
\* change in hundredths of a percent)
TrendReadings ==
    { <<"NAN", "NAN", 0>>, <<"BULLISH", "BULLISH", 600>>, <<"BULLISH", "BEARISH", 600>>,
      <<"BEARISH", "BEARISH", 0>>, <<"BULLISH", "BEARISH", 500>>,
      <<"BEARISH", "BULLISH", -600>> }

IndicatorReadings ==
    { [votes |-> v, ma |-> t[1], macd |-> t[2], price_change_20d |-> t[3]] :
        v \in IndicatorVotes, t \in TrendReadings }

\* every combination of votes of the five indicators
AllVotes == [1..5 -> {"BUY", "SELL", "NONE"}]

\* every combination of the two trend readings with a 20-bar price change
\* below, at and above the +-5 % marks
AllTrendReadings ==
    {"NAN", "BULLISH", "BEARISH"} \X {"NAN", "BULLISH", "BEARISH"}
        \X {-600, -500, 0, 500, 600}

\* the frames of which only the number of bars is read
PlainFrames ==
    { frame \in DataFrames : frame.atr = <<>> /\ frame.highs = {} /\ frame.lows = {} }

Signals == {"BUY", "SELL", "HOLD"}

\* a guard that lets only the empty frame through
TooShort_EmptyOnly(frame, minimum) == frame.bars = 0

\* `df.empty or len(df) < minimum`
TooShort(frame, minimum) == frame.bars = 0 \/ frame.bars < minimum

\* a strength that divides by the three rules instead of the votes cast
OverallTrend_OfThree(bullish_signals, bearish_signals, total) ==
    IF bullish_signals > bearish_signals
    THEN <<"BULLISH", RoundDiv(bullish_signals * 10000, 3)>>
    ELSE IF bearish_signals > bullish_signals
    THEN <<"BEARISH", RoundDiv(bearish_signals * 10000, 3)>>
    ELSE <<"NEUTRAL", 5000>>

\* the (trend, strength) of analyze_trend; total is len(signals)
OverallTrend(bullish_signals, bearish_signals, total) ==
    IF bullish_signals > bearish_signals
    THEN <<"BULLISH", RoundDiv(bullish_signals * 10000, total)>>
    ELSE IF bearish_signals > bullish_signals
    THEN <<"BEARISH", RoundDiv(bearish_signals * 10000, total)>>
    ELSE <<"NEUTRAL", 5000>>

\* analyze_trend
AnalyzeTrend(frame, ind) ==
    IF TooShort(frame, 50)
    THEN [trend |-> "UNKNOWN", strength |-> 0, signals |-> <<>>]
    ELSE
    LET signals ==
            (IF ind.ma = "NAN" THEN <<>> ELSE <<"MA_" \o ind.ma>>)
            \o (IF ind.macd = "NAN" THEN <<>> ELSE <<"MACD_" \o ind.macd>>)
            \o (IF ind.price_change_20d > 500 THEN <<"PRICE_UPTREND">>
                ELSE IF ind.price_change_20d < -500 THEN <<"PRICE_DOWNTREND">>
                ELSE <<>>)
        \* the names that contain 'BULLISH' or 'UPTREND', 'BEARISH' or 'DOWNTREND'
        bullish_signals ==
            Cardinality({ i \in 1..Len(signals) :
                            signals[i] \in {"MA_BULLISH", "MACD_BULLISH", "PRICE_UPTREND"} })
        bearish_signals ==
            Cardinality({ i \in 1..Len(signals) :
                            signals[i] \in {"MA_BEARISH", "MACD_BEARISH", "PRICE_DOWNTREND"} })
        overall == OverallTrend(bullish_signals, bearish_signals, Len(signals))
    IN [trend |-> overall[1],
        strength |-> overall[2],
        signals |-> signals,
        price_change_20d |-> ind.price_change_20d]

\* sorted(list(set(levels)), reverse=True) and sorted(list(set(levels)))
RECURSIVE SortedDescending(_)
SortedDescending(levels) ==
    IF levels = {} THEN <<>>
    ELSE LET top == CHOOSE x \in levels : \A y \in levels : y <= x
         IN <<top>> \o SortedDescending(levels \ {top})

RECURSIVE SortedAscending(_)
SortedAscending(levels) ==
    IF levels = {} THEN <<>>
    ELSE LET low == CHOOSE x \in levels : \A y \in levels : x <= y
         IN <<low>> \o SortedAscending(levels \ {low})

\* levels[:5]
FirstFive(levels) == SubSeq(levels, 1, Min(5, Len(levels)))

\* identify_support_resistance; the two loops run over range(window,
\* len(df) - window) and find nothing when that range is empty
IdentifySupportResistance(frame, window) ==
    IF TooShort(frame, window)
    THEN [support |-> <<>>, resistance |-> <<>>]
    ELSE
    LET found(levels) == IF window < frame.bars - window THEN levels ELSE {}
        resistance_levels == FirstFive(SortedDescending(found(frame.highs)))
        support_levels == FirstFive(SortedAscending(found(frame.lows)))
        current_price == frame.close
        above == { r \in { resistance_levels[i] : i \in 1..Len(resistance_levels) } :
                     r > current_price }
        below == { s \in { support_levels[i] : i \in 1..Len(support_levels) } :
                     s < current_price }
    IN [resistance |-> resistance_levels,
        support |-> support_levels,
        current_price |-> current_price,
        nearest_resistance |->
            IF above = {} THEN <<>>
            ELSE <<CHOOSE r \in above : \A x \in above : r <= x>>,
        nearest_support |->
            IF below = {} THEN <<>>
            ELSE <<CHOOSE s \in below : \A x \in below : x <= s>>]

\* a final signal that lets the buy votes win a tie
FinalSignal_TieBuys(buy_signals, sell_signals) ==
    IF buy_signals + sell_signals = 0 THEN <<"HOLD", 5000>>
    ELSE IF buy_signals >= sell_signals
    THEN <<"BUY", RoundDiv(buy_signals * 10000, buy_signals + sell_signals)>>
    ELSE <<"SELL", RoundDiv(sell_signals * 10000, buy_signals + sell_signals)>>

\* the (final_signal, confidence) of generate_signals
FinalSignal(buy_signals, sell_signals) ==
    IF buy_signals + sell_signals = 0 THEN <<"HOLD", 5000>>
    ELSE IF buy_signals > sell_signals
    THEN <<"BUY", RoundDiv(buy_signals * 10000, buy_signals + sell_signals)>>
    ELSE IF sell_signals > buy_signals
    THEN <<"SELL", RoundDiv(sell_signals * 10000, buy_signals + sell_signals)>>
    ELSE <<"HOLD", 5000>>

\* generate_signals
GenerateSignals(frame, ind) ==
    IF TooShort(frame, 50)
    THEN [signal |-> "HOLD", confidence |-> 0, reasons |-> <<>>]
    ELSE
    LET vote(i, oversold, overbought) ==
            IF ind.votes[i] = "BUY" THEN <<oversold>>
            ELSE IF ind.votes[i] = "SELL" THEN <<overbought>>
            ELSE <<>>
        signals == vote(1, "RSI_OVERSOLD", "RSI_OVERBOUGHT")
                   \o vote(2, "MACD_BULLISH_CROSS", "MACD_BEARISH_CROSS")
                   \o vote(3, "BB_OVERSOLD", "BB_OVERBOUGHT")
                   \o vote(4, "MA_BULLISH_CROSS", "MA_BEARISH_CROSS")
                   \o vote(5, "STOCH_OVERSOLD", "STOCH_OVERBOUGHT")
        buy_signals == Cardinality({ i \in 1..5 : ind.votes[i] = "BUY" })
        sell_signals == Cardinality({ i \in 1..5 : ind.votes[i] = "SELL" })
        final == FinalSignal(buy_signals, sell_signals)
    IN [signal |-> final[1],
        confidence |-> final[2],
        buy_signals |-> buy_signals,
        sell_signals |-> sell_signals,
        signals |-> signals]

\* the targets whose value is a level of identify_support_resistance
LevelKeys == {"take_profit_3", "stop_loss_2", "support", "resistance"}

\* isinstance(value, (int, float)): a level that is None is not a number
IsNumber(targets, key) == key \notin LevelKeys \/ targets[key] # <<>>

\* the loop `for key, value in targets.items()` that assigns
\* targets[f'{key}_pct']: the first assignment adds a key to the dict the
\* loop iterates over, and the next step of the iteration raises
PercentageChanges(targets) ==
    IF \E key \in DOMAIN targets : key # "current_price" /\ IsNumber(targets, key)
    THEN Raise("RuntimeError")
    ELSE targets

\* calculate_price_targets
CalculatePriceTargets(frame, sig) ==
    IF TooShort(frame, 20) THEN EmptyDict
    ELSE PercentageChanges(
             BuildTargets(frame.close, frame.atr, sig,
                          IdentifySupportResistance(frame, 20)))

\* comprehensive_analysis
ComprehensiveAnalysis(frame, ind) ==
    LET trend_analysis == AnalyzeTrend(frame, ind)
        signal_analysis == GenerateSignals(frame, ind)
        support_resistance == IdentifySupportResistance(frame, 20)
        price_targets == CalculatePriceTargets(frame, signal_analysis.signal)
    IN IF Raised(price_targets) THEN price_targets
       ELSE [trend_analysis |-> trend_analysis,
             signal_analysis |-> signal_analysis,
             support_resistance |-> support_resistance,
             price_targets |-> price_targets]
            @@ (IF frame.bars > 50 THEN [indicators |-> ind] ELSE EmptyDict)

\* technical.analyze_trend(df)
TrendCall ==
    /\ pc = "idle"
    /\ \E frame \in PlainFrames, t \in AllTrendReadings :
          LET ind == [votes |-> NoIndicators.votes,
                      ma |-> t[1], macd |-> t[2], price_change_20d |-> t[3]]
          IN /\ df' = frame
             /\ indicators' = ind
             /\ result' = AnalyzeTrend(frame, ind)
    /\ call' = "analyze_trend"
    /\ pc' = "returned"
    /\ UNCHANGED <<risk_profiles, risk_profile, portfolio_vars, synth_vars,
                   signal_arg, previous>>
    /\ UNCHANGED passed

\* technical.generate_signals(df)
SignalsCall ==
    /\ pc = "idle"
    /\ \E frame \in PlainFrames, v \in AllVotes :
          LET ind == [NoIndicators EXCEPT !.votes = v]
          IN /\ df' = frame
             /\ indicators' = ind
             /\ result' = GenerateSignals(frame, ind)
    /\ call' = "generate_signals"
    /\ pc' = "returned"
    /\ UNCHANGED <<risk_profiles, risk_profile, portfolio_vars, synth_vars,
                   signal_arg, previous>>
    /\ UNCHANGED passed

\* technical.identify_support_resistance(df)
SupportResistanceCall ==
    /\ pc = "idle"
    /\ \E frame \in DataFrames :
          /\ df' = frame
          /\ result' = IdentifySupportResistance(frame, 20)
    /\ call' = "identify_support_resistance"
    /\ pc' = "returned"
    /\ UNCHANGED <<risk_profiles, risk_profile, portfolio_vars, synth_vars,
                   indicators, signal_arg, previous>>
    /\ UNCHANGED passed

\* technical.calculate_price_targets(df, signal)
PriceTargetsCall ==
    /\ pc = "idle"
    /\ \E frame \in DataFrames, sig \in Signals :
          /\ df' = frame
          /\ signal_arg' = sig
          /\ result' = CalculatePriceTargets(frame, sig)
    /\ call' = "calculate_price_targets"
    /\ pc' = "returned"
    /\ UNCHANGED <<risk_profiles, risk_profile, portfolio_vars, synth_vars,
                   indicators, previous>>
    /\ UNCHANGED passed

\* technical.comprehensive_analysis(df)
ComprehensiveAnalysisCall ==
    /\ pc = "idle"
    /\ \E frame \in DataFrames, ind \in IndicatorReadings :
          /\ df' = frame
          /\ indicators' = ind
          /\ result' = ComprehensiveAnalysis(frame, ind)
    /\ call' = "comprehensive_analysis"
    /\ pc' = "returned"
    /\ UNCHANGED <<risk_profiles, risk_profile, portfolio_vars, synth_vars,
                   signal_arg, previous>>
    /\ UNCHANGED passed

-----------------------------------------------------------------------------
(* RecommendationEngine: the stages of the synthesizer *)

\* _get_score_grade; the score is in hundredths of a point
GetScoreGrade(score) ==
    IF score >= 9000 THEN "A+"
    ELSE IF score >= 8000 THEN "A"
    ELSE IF score >= 7000 THEN "B+"
    ELSE IF score >= 6000 THEN "B"
    ELSE IF score >= 5000 THEN "C+"
    ELSE IF score >= 4000 THEN "C"
    ELSE IF score >= 3000 THEN "D"
    ELSE "F"

\* a signal table that scores SELL as it scores HOLD
TechSignalScore_SellAsHold(tech_signal) ==
    IF tech_signal = "BUY" THEN 7500 ELSE 5000

\* `Convert signal to score`, in hundredths
TechSignalScore(tech_signal) ==
    IF tech_signal = "BUY" THEN 7500
    ELSE IF tech_signal = "SELL" THEN 2500
    ELSE 5000

\* _calculate_combined_score.  technical_score is a sum divided by 3 and the
\* combined score a sum divided by 30; both are kept as exact numerators and
\* rounded to hundredths as round(x, 2) does.  The grade is taken from the
\* unrounded score: its thresholds are whole points, so comparing the exact
\* quotient and comparing its floor agree.
CalculateCombinedScore(technical, fundamental) ==
    LET tech_signal == Get(Get(technical, "signal_analysis", EmptyDict), "signal", "HOLD")
        tech_confidence ==
            Get(Get(technical, "signal_analysis", EmptyDict), "confidence", 5000)
        trend_strength ==
            Get(Get(technical, "trend_analysis", EmptyDict), "strength", 5000)
        tech_signal_score == TechSignalScore(tech_signal)
        technical_x3 == tech_signal_score + tech_confidence + trend_strength
        fundamental_score ==
            Get(Get(fundamental, "fundamental_score", EmptyDict), "total_score", 5000)
        combined_x30 == technical_x3 * 4 + fundamental_score * 18
    IN [technical_score |-> RoundDiv(technical_x3, 3),
        fundamental_score |-> fundamental_score,
        combined_score |-> RoundDiv(combined_x30, 30),
        grade |-> GetScoreGrade(combined_x30 \div 30)]

\* an adjustment without the cap at 95 and the floor at 40
AdjustConfidence_Unbounded(confidence, agree, conflict) ==
    IF agree THEN confidence + 1000
    ELSE IF conflict THEN confidence - 1500
    ELSE confidence

\* `Adjust based on signal alignment`: the confidence after the adjustment
AdjustConfidence(confidence, agree, conflict) ==
    IF agree THEN Min(9500, confidence + 1000)
    ELSE IF conflict THEN Max(4000, confidence - 1500)
    ELSE confidence

\* _get_final_recommendation.  combined (combined_score) is whatever the caller passes:
\* Float(n) for a number, or a dict, which `<` cannot compare with an int.
\* The reason is the sequence of its parts; the confidence is rounded to one
\* decimal as round(confidence, 1) does.
GetFinalRecommendation(technical_signal, fundamental_rec, combined, risk_settings) ==
    IF ~IsFloat(combined) THEN Raise("TypeError")
    ELSE
    LET score == combined.float
        base ==
            IF score >= 8000 THEN
                [action |-> "STRONG_BUY",
                 reason |-> <<"Excellent technical and fundamental indicators">>,
                 confidence |-> Min(9500, score),
                 time_horizon |-> "6-12 months"]
            ELSE IF score >= 7000 THEN
                [action |-> "BUY",
                 reason |-> <<"Good technical and fundamental indicators">>,
                 confidence |-> Min(8500, score + 1000),
                 time_horizon |-> "3-6 months"]
            ELSE IF score >= 6000 THEN
                [action |-> "HOLD",
                 reason |-> <<"Average indicators, maintain current position">>,
                 confidence |-> 7000,
                 time_horizon |-> "1-3 months"]
            ELSE IF score >= 4000 THEN
                [action |-> "WEAK_HOLD",
                 reason |-> <<"Below average indicators, consider reducing">>,
                 confidence |-> 6000,
                 time_horizon |-> "1 month"]
            ELSE
                [action |-> "SELL",
                 reason |-> <<"Poor indicators, consider exiting">>,
                 confidence |-> Min(8500, 10000 - score + 1000),
                 time_horizon |-> "Immediate"]
        agree ==
            \/ technical_signal = "BUY" /\ fundamental_rec \in {"BUY", "STRONG_BUY"}
            \/ technical_signal = "SELL" /\ fundamental_rec = "SELL"
        conflict ==
            \/ technical_signal = "BUY" /\ fundamental_rec = "SELL"
            \/ technical_signal = "SELL" /\ fundamental_rec \in {"BUY", "STRONG_BUY"}
        confidence == AdjustConfidence(base.confidence, agree, conflict)
        reason == IF ~agree /\ conflict
                  THEN Append(base.reason, " (Conflicting signals detected)")
                  ELSE base.reason
    IN IF score < risk_settings.min_score * 100
       THEN [action |-> "AVOID",
             reason |-> <<"Fundamental quality below minimum threshold">>,
             confidence |-> 9000,
             time_horizon |-> "N/A"]
       ELSE [action |-> base.action,
             reason |-> reason,
             confidence |-> RoundDiv(confidence, 10) * 10,
             time_horizon |-> base.time_horizon]

\* _calculate_position_sizing; the ratio is reward / risk, or 0 when
\* risk <= 0.  size_multiplier is in tenths, recommended_size (the "x.x%"
\* string) in tenths of a percent.
CalculatePositionSizing(risk_settings, reward, risk) ==
    LET ratio_at_least(n, d) == risk > 0 /\ reward * d >= risk * n
        size_multiplier == IF ratio_at_least(3, 1) THEN 12
                           ELSE IF ratio_at_least(2, 1) THEN 10
                           ELSE IF ratio_at_least(3, 2) THEN 8
                           ELSE 5
    IN [recommended_size |-> risk_settings.max_position_size * size_multiplier,
        size_multiplier |-> size_multiplier]

\* _calculate_risk_management.  The prices of the verdicts are whole currency
\* units, so the percentages of the profile give whole hundredths.
CalculateRiskManagement(technical, fundamental, risk_settings) ==
    LET price_targets == Get(technical, "price_targets", EmptyDict)
        current_price == Get(price_targets, "current_price", 0)
        atr == Get(price_targets, "atr", (current_price * 2) \div 100)
        base_stop == (current_price * (100 - risk_settings.stop_loss)) \div 100
        base_take == (current_price * (100 + risk_settings.take_profit)) \div 100
        stop_loss == IF "stop_loss" \in DOMAIN price_targets
                     THEN Max(base_stop, price_targets.stop_loss)
                     ELSE base_stop
        take_profit == IF "take_profit_1" \in DOMAIN price_targets
                       THEN Min(base_take, price_targets.take_profit_1)
                       ELSE base_take
        risk_amount == current_price - stop_loss
        reward_amount == take_profit - current_price
    IN IF current_price = 0 THEN EmptyDict
       ELSE [entry_price |-> current_price,
             stop_loss |-> stop_loss,
             take_profit |-> take_profit,
             max_position_size |-> risk_settings.max_position_size * 10,
             risk_amount |-> risk_amount,
             reward_amount |-> reward_amount,
             risk_reward_ratio |-> IF risk_amount > 0
                                   THEN RoundDiv(reward_amount * 100, risk_amount)
                                   ELSE 0,
             atr |-> atr,
             position_sizing |->
                 CalculatePositionSizing(risk_settings, reward_amount, risk_amount)]

\* an optional level that `if level:` takes as true
Truthy(level) == level # <<>> /\ level[1] # 0

\* _generate_actionable_insights: the (type, insight, priority) of each entry
GenerateActionableInsights(technical, fundamental, recommendation) ==
    LET trend == Get(Get(technical, "trend_analysis", EmptyDict), "trend", "NEUTRAL")
        signals == Get(Get(technical, "signal_analysis", EmptyDict), "signals", <<>>)
        sr_levels == Get(technical, "support_resistance", EmptyDict)
        tags == { signals[i] : i \in 1..Len(signals) }
        status(block, key) ==
            Get(Get(Get(fundamental, block, EmptyDict), key, EmptyDict), "status", "")
        valuation == status("valuation_analysis", "overall_valuation")
        profitability == status("profitability_analysis", "overall_profitability")
        health == status("financial_health_analysis", "overall_financial_health")
        action == Get(recommendation, "action", "HOLD")
        one(cond, type, insight, priority) ==
            IF cond THEN <<[type |-> type, insight |-> insight, priority |-> priority]>>
            ELSE <<>>
    IN one(trend = "BULLISH", "TECHNICAL", "uptrend", "HIGH")
       \o one(trend = "BEARISH", "TECHNICAL", "downtrend", "HIGH")
       \o one("RSI_OVERSOLD" \in tags, "TECHNICAL", "oversold", "MEDIUM")
       \o one("RSI_OVERSOLD" \notin tags /\ "RSI_OVERBOUGHT" \in tags,
              "TECHNICAL", "overbought", "MEDIUM")
       \o one(Truthy(Get(sr_levels, "nearest_resistance", <<>>)),
              "TECHNICAL", "resistance", "MEDIUM")
       \o one(Truthy(Get(sr_levels, "nearest_support", <<>>)),
              "TECHNICAL", "support", "MEDIUM")
       \o one(valuation = "ATTRACTIVE", "FUNDAMENTAL", "attractive", "HIGH")
       \o one(valuation = "EXPENSIVE", "FUNDAMENTAL", "expensive", "MEDIUM")
       \o one(profitability = "EXCELLENT", "FUNDAMENTAL", "profitable", "HIGH")
       \o one(health = "EXCELLENT", "FUNDAMENTAL", "healthy", "HIGH")
       \o one(health = "POOR", "FUNDAMENTAL", "unhealthy", "HIGH")
       \o one(action \in {"BUY", "STRONG_BUY"}, "RECOMMENDATION", "buy", "HIGH")
       \o one(action = "SELL", "RECOMMENDATION", "sell", "HIGH")

\* generate_comprehensive_recommendation: the dict _calculate_combined_score
\* returns is what is passed on as combined_score
GenerateComprehensiveRecommendation(profiles, technical, fundamental, name, now) ==
    LET risk_settings == RiskSettings(profiles, name)
        technical_signal ==
            Get(Get(technical, "signal_analysis", EmptyDict), "signal", "HOLD")
        technical_confidence ==
            Get(Get(technical, "signal_analysis", EmptyDict), "confidence", 5000)
        trend == Get(Get(technical, "trend_analysis", EmptyDict), "trend", "NEUTRAL")
        fundamental_score ==
            Get(Get(fundamental, "fundamental_score", EmptyDict), "total_score", 5000)
        fundamental_recommendation ==
            Get(Get(fundamental, "fundamental_recommendation", EmptyDict),
                "recommendation", "HOLD")
        score == CalculateCombinedScore(technical, fundamental)
        final == GetFinalRecommendation(technical_signal, fundamental_recommendation,
                                        score, risk_settings)
    IN IF Raised(final) THEN final
       ELSE [recommendation |-> final,
             combined_score |-> score,
             technical_signal |-> technical_signal,
             technical_confidence |-> technical_confidence,
             fundamental_score |-> fundamental_score,
             fundamental_recommendation |-> fundamental_recommendation,
             trend |-> trend,
             risk_management |->
                 CalculateRiskManagement(technical, fundamental, risk_settings),
             actionable_insights |->
                 GenerateActionableInsights(technical, fundamental, final),
             risk_profile |-> name,
             timestamp |-> now]

\* the readings of datetime.now().strftime('%Y-%m-%d %H:%M:%S'): seconds
MaxClock == 2

DateTimes == 1..MaxClock

\* the caller holds a technical verdict and a score card for one ticker
Analyse ==
    /\ pc = "idle"
    /\ \E technical \in TechnicalVerdicts, fundamental \in ScoreCards,
          name \in ProfileNames :
          /\ passed' = Objects(stocks_analysis, technical, fundamental, risk_profiles)
          /\ technical_analysis' = technical
          /\ fundamental_analysis' = fundamental
          /\ risk_profile' = name
    /\ pc' = "analysed"
    /\ UNCHANGED <<technical_vars, previous>>
    /\ UNCHANGED <<risk_profiles, portfolio_vars, stage_vars, call, result>>

\* engine.generate_comprehensive_recommendation(technical, fundamental, profile)
ComprehensiveCall ==
    /\ pc = "analysed"
    /\ call' = "generate_comprehensive_recommendation"
    /\ \E now \in DateTimes :
          result' = GenerateComprehensiveRecommendation(
                        risk_profiles, technical_analysis, fundamental_analysis,
                        risk_profile, now)
    /\ pc' = "returned"
    /\ UNCHANGED <<technical_vars, previous>>
    /\ UNCHANGED <<risk_profiles, risk_profile, portfolio_vars, synth_vars>>
    /\ UNCHANGED passed

\* the caller invokes the handler a second time with the same arguments
ComprehensiveAgain ==
    /\ pc = "returned"
    /\ call = "generate_comprehensive_recommendation"
    /\ previous = None
    /\ previous' = result
    /\ \E now \in DateTimes :
          result' = GenerateComprehensiveRecommendation(
                        risk_profiles, technical_analysis, fundamental_analysis,
                        risk_profile, now)
    /\ UNCHANGED <<risk_profiles, pc, risk_profile, portfolio_vars, synth_vars,
                   technical_vars, call>>
    /\ UNCHANGED passed

\* engine._calculate_combined_score(technical, fundamental)
CombinedScoreCall ==
    /\ pc = "analysed"
    /\ combined_score = None
    /\ combined_score' = CalculateCombinedScore(technical_analysis, fundamental_analysis)
    /\ UNCHANGED <<technical_vars, previous>>
    /\ UNCHANGED <<risk_profiles, pc, risk_profile, portfolio_vars, technical_analysis,
                   fundamental_analysis, final_recommendation, risk_management,
                   call, result>>
    /\ UNCHANGED passed

\* engine._get_final_recommendation(signal, recommendation, score, settings)
\* with the number combined_score['combined_score'] as score
FinalRecommendationCall ==
    /\ pc = "analysed"
    /\ combined_score # None
    /\ final_recommendation = None
    /\ final_recommendation' =
          GetFinalRecommendation(
              Get(Get(technical_analysis, "signal_analysis", EmptyDict),
                  "signal", "HOLD"),
              Get(Get(fundamental_analysis, "fundamental_recommendation", EmptyDict),
                  "recommendation", "HOLD"),
              Float(combined_score.combined_score),
              RiskSettings(risk_profiles, risk_profile))
    /\ UNCHANGED <<technical_vars, previous>>
    /\ UNCHANGED <<risk_profiles, pc, risk_profile, portfolio_vars, technical_analysis,
                   fundamental_analysis, combined_score, risk_management,
                   call, result>>
    /\ UNCHANGED passed

\* engine._calculate_risk_management(technical, fundamental, settings)
RiskManagementCall ==
    /\ pc = "analysed"
    /\ risk_management = None
    /\ risk_management' =
          CalculateRiskManagement(technical_analysis, fundamental_analysis,
                                  RiskSettings(risk_profiles, risk_profile))
    /\ UNCHANGED <<technical_vars, previous>>
    /\ UNCHANGED <<risk_profiles, pc, risk_profile, portfolio_vars, technical_analysis,
                   fundamental_analysis, combined_score, final_recommendation,
                   call, result>>
    /\ UNCHANGED passed

-----------------------------------------------------------------------------
(* FundamentalAnalysis *)

\* Ratios (P/E, P/B, ROE, debt to equity, beta, dividend yield) are in tenths.
\* A string that the code searches is the sequence of its characters.

UpperToLower ==
    [A |-> "a", B |-> "b", C |-> "c", D |-> "d", E |-> "e", F |-> "f", G |-> "g",
     H |-> "h", I |-> "i", J |-> "j", K |-> "k", L |-> "l", M |-> "m", N |-> "n",
     O |-> "o", P |-> "p", Q |-> "q", R |-> "r", S |-> "s", T |-> "t", U |-> "u",
     V |-> "v", W |-> "w", X |-> "x", Y |-> "y", Z |-> "z"]

\* str.lower()
Lower(s) == [i \in DOMAIN s |-> IF s[i] \in DOMAIN UpperToLower
                                THEN UpperToLower[s[i]] ELSE s[i]]

\* `key in s` for strings
Contains(key, s) ==
    \E i \in 0..(Len(s) - Len(key)) : SubSeq(s, i + 1, i + Len(key)) = key

\* FundamentalAnalysis.__init__: the benchmark table; where the dict literal
\* repeats the key 'roe' (mining) the later value stands
IndustryBenchmarks ==
    [banking |-> [pe_ratio |-> <<80, 150>>, pb_ratio |-> <<10, 20>>,
                  roe |-> <<100, 200>>, roe_avg |-> 150,
                  debt_to_equity |-> <<0, 100>>],
     consumer |-> [pe_ratio |-> <<150, 250>>, pb_ratio |-> <<20, 50>>,
                   roe |-> <<150, 250>>, roe_avg |-> 200,
                   debt_to_equity |-> <<0, 10>>],
     infrastructure |-> [pe_ratio |-> <<120, 200>>, pb_ratio |-> <<15, 30>>,
                         roe |-> <<120, 180>>, roe_avg |-> 150,
                         debt_to_equity |-> <<0, 20>>],
     mining |-> [pe_ratio |-> <<100, 200>>, pb_ratio |-> <<10, 30>>,
                 roe |-> <<80, 150>>, roe_avg |-> 150,
                 debt_to_equity |-> <<0, 15>>],
     telecommunication |-> [pe_ratio |-> <<150, 250>>, pb_ratio |-> <<20, 40>>,
                            roe |-> <<150, 250>>, roe_avg |-> 200,
                            debt_to_equity |-> <<0, 15>>],
     default |-> [pe_ratio |-> <<100, 200>>, pb_ratio |-> <<10, 30>>,
                  roe |-> <<100, 200>>, roe_avg |-> 150,
                  debt_to_equity |-> <<0, 15>>]]

\* self.industry_benchmarks.keys(), in insertion order
BenchmarkKeys ==
    << [name |-> "banking", chars |->
           <<"b", "a", "n", "k", "i", "n", "g">>],
       [name |-> "consumer", chars |->
           <<"c", "o", "n", "s", "u", "m", "e", "r">>],
       [name |-> "infrastructure", chars |->
           <<"i", "n", "f", "r", "a", "s", "t", "r", "u", "c", "t", "u", "r", "e">>],
       [name |-> "mining", chars |->
           <<"m", "i", "n", "i", "n", "g">>],
       [name |-> "telecommunication", chars |->
           <<"t", "e", "l", "e", "c", "o", "m", "m", "u", "n", "i", "c", "a", "t", "i", "o", "n">>],
       [name |-> "default", chars |->
           <<"d", "e", "f", "a", "u", "l", "t">>] >>

\* a lookup that tries every key on the industry before it looks at the sector
BenchmarkKey_IndustryFirst(company_info) ==
    LET industry == Lower(Get(company_info, "industry", <<>>))
        sector == Lower(Get(company_info, "sector", <<>>))
        in_industry == { k \in 1..Len(BenchmarkKeys) :
                           Contains(BenchmarkKeys[k].chars, industry) }
        in_sector == { k \in 1..Len(BenchmarkKeys) :
                         Contains(BenchmarkKeys[k].chars, sector) }
    IN IF in_industry # {}
       THEN BenchmarkKeys[CHOOSE k \in in_industry : \A j \in in_industry : k <= j].name
       ELSE IF in_sector # {}
       THEN BenchmarkKeys[CHOOSE k \in in_sector : \A j \in in_sector : k <= j].name
       ELSE "default"

\* the loop that picks benchmark_key: the first key found in the lower-cased
\* industry or sector, 'default' when the loop finds none
BenchmarkKey(company_info) ==
    LET industry == Lower(Get(company_info, "industry", <<>>))
        sector == Lower(Get(company_info, "sector", <<>>))
        hits == { k \in 1..Len(BenchmarkKeys) :
                    \/ Contains(BenchmarkKeys[k].chars, industry)
                    \/ Contains(BenchmarkKeys[k].chars, sector) }
    IN IF hits = {} THEN "default"
       ELSE BenchmarkKeys[CHOOSE k \in hits : \A j \in hits : k <= j].name

\* an overall valuation that is ATTRACTIVE or EXPENSIVE only when both ratios
\* vote the same way
CalculateOverallValuation_Unanimous(pe_analysis, pb_analysis) ==
    IF pe_analysis.status = "UNDervalued" /\ pb_analysis.status = "UNDervalued"
    THEN [status |-> "ATTRACTIVE"]
    ELSE IF pe_analysis.status = "OVERvalued" /\ pb_analysis.status = "OVERvalued"
    THEN [status |-> "EXPENSIVE"]
    ELSE [status |-> "FAIR"]

\* _calculate_overall_valuation
CalculateOverallValuation(pe_analysis, pb_analysis) ==
    LET pe_score == IF pe_analysis.status = "UNDervalued" THEN 1
                    ELSE IF pe_analysis.status = "FAIR" THEN 0 ELSE -1
        pb_score == IF pb_analysis.status = "UNDervalued" THEN 1
                    ELSE IF pb_analysis.status = "FAIR" THEN 0 ELSE -1
        total_score == pe_score + pb_score
    IN IF total_score >= 1 THEN [status |-> "ATTRACTIVE"]
       ELSE IF total_score <= -1 THEN [status |-> "EXPENSIVE"]
       ELSE [status |-> "FAIR"]

\* the status of a ratio against the (low, high) range of the benchmark
RangeStatus(ratio, range) ==
    IF ratio < range[1] THEN "UNDervalued"
    ELSE IF ratio > range[2] THEN "OVERvalued"
    ELSE "FAIR"

\* analyze_valuation_ratios; market_cap is in units of 1,000,000,000
AnalyzeValuationRatios(company_info) ==
    LET pe_ratio == Get(company_info, "pe_ratio", 0)
        pb_ratio == Get(company_info, "pb_ratio", 0)
        market_cap == Get(company_info, "market_cap", 0)
        benchmarks == IndustryBenchmarks[BenchmarkKey(company_info)]
        pe_analysis == [current |-> pe_ratio,
                        industry_low |-> benchmarks.pe_ratio[1],
                        industry_high |-> benchmarks.pe_ratio[2],
                        status |-> RangeStatus(pe_ratio, benchmarks.pe_ratio)]
        pb_analysis == [current |-> pb_ratio,
                        industry_low |-> benchmarks.pb_ratio[1],
                        industry_high |-> benchmarks.pb_ratio[2],
                        status |-> RangeStatus(pb_ratio, benchmarks.pb_ratio)]
    IN [pe_analysis |-> pe_analysis,
        pb_analysis |-> pb_analysis,
        market_cap_tier |-> IF market_cap > 50 THEN "Large Cap"
                            ELSE IF market_cap > 10 THEN "Mid Cap"
                            ELSE "Small Cap",
        overall_valuation |-> CalculateOverallValuation(pe_analysis, pb_analysis)]

\* _calculate_overall_profitability
CalculateOverallProfitability(roe_analysis, profit_margin_analysis) ==
    LET roe_score == IF roe_analysis.status = "EXCELLENT" THEN 2
                     ELSE IF roe_analysis.status = "GOOD" THEN 1 ELSE 0
        margin_score == IF profit_margin_analysis.status = "EXCELLENT" THEN 2
                        ELSE IF profit_margin_analysis.status = "GOOD" THEN 1 ELSE 0
        total_score == roe_score + margin_score
    IN IF total_score >= 3 THEN [status |-> "EXCELLENT"]
       ELSE IF total_score >= 2 THEN [status |-> "GOOD"]
       ELSE IF total_score >= 1 THEN [status |-> "AVERAGE"]
       ELSE [status |-> "POOR"]

\* analyze_profitability; the profit margin net_income / revenue * 100 is
\* compared with a threshold t as net_income * 100 > t * revenue
AnalyzeProfitability(company_info) ==
    LET roe == Get(company_info, "roe", 0)
        revenue == Get(company_info, "revenue", 0)
        net_income == Get(company_info, "net_income", 0)
        benchmarks == IndustryBenchmarks[BenchmarkKey(company_info)]
        roe_avg == Get(benchmarks, "roe_avg", 150)
        margin_above(t) == IF revenue > 0 THEN net_income * 100 > t * revenue
                           ELSE 0 > t
        roe_analysis ==
            [current |-> roe,
             industry_average |-> roe_avg,
             status |-> IF roe > roe_avg THEN "EXCELLENT"
                        ELSE IF roe > 100 THEN "GOOD"
                        ELSE IF roe > 50 THEN "AVERAGE"
                        ELSE "POOR"]
        profit_margin_analysis ==
            [status |-> IF margin_above(20) THEN "EXCELLENT"
                        ELSE IF margin_above(10) THEN "GOOD"
                        ELSE IF margin_above(5) THEN "AVERAGE"
                        ELSE "POOR"]
    IN [roe_analysis |-> roe_analysis,
        profit_margin_analysis |-> profit_margin_analysis,
        overall_profitability |->
            CalculateOverallProfitability(roe_analysis, profit_margin_analysis)]

\* _calculate_overall_financial_health
CalculateOverallFinancialHealth(dte_analysis, beta_analysis) ==
    LET dte_score == IF dte_analysis.status = "VERY_HEALTHY" THEN 2
                     ELSE IF dte_analysis.status = "HEALTHY" THEN 1 ELSE 0
        risk_score == IF beta_analysis.status = "LOW_RISK" THEN 2
                      ELSE IF beta_analysis.status = "AVERAGE" THEN 1 ELSE 0
        total_score == dte_score + risk_score
    IN IF total_score >= 3 THEN [status |-> "EXCELLENT"]
       ELSE IF total_score >= 2 THEN [status |-> "GOOD"]
       ELSE IF total_score >= 1 THEN [status |-> "AVERAGE"]
       ELSE [status |-> "POOR"]

\* analyze_financial_health
AnalyzeFinancialHealth(company_info) ==
    LET debt_to_equity == Get(company_info, "debt_to_equity", 0)
        beta == Get(company_info, "beta", 10)
        benchmarks == IndustryBenchmarks[BenchmarkKey(company_info)]
        industry_max == Get(benchmarks, "debt_to_equity", <<0, 15>>)[2]
        dte_analysis ==
            [current |-> debt_to_equity,
             industry_max |-> industry_max,
             status |-> IF debt_to_equity < 5 THEN "VERY_HEALTHY"
                        ELSE IF debt_to_equity < industry_max THEN "HEALTHY"
                        ELSE IF debt_to_equity < 20 THEN "MODERATE"
                        ELSE "HIGH_RISK"]
        beta_analysis ==
            [current |-> beta,
             status |-> IF beta < 8 THEN "LOW_RISK"
                        ELSE IF beta < 12 THEN "AVERAGE"
                        ELSE IF beta < 15 THEN "HIGH_RISK"
                        ELSE "VERY_HIGH_RISK"]
    IN [debt_analysis |-> dte_analysis,
        risk_analysis |-> beta_analysis,
        overall_financial_health |->
            CalculateOverallFinancialHealth(dte_analysis, beta_analysis)]

\* analyze_dividend
AnalyzeDividend(company_info) ==
    LET dividend_yield == Get(company_info, "dividend_yield", 0)
    IN [current_yield |-> dividend_yield,
        status |-> IF dividend_yield > 60 THEN "HIGH_YIELD"
                   ELSE IF dividend_yield > 30 THEN "GOOD_YIELD"
                   ELSE IF dividend_yield > 10 THEN "MODERATE_YIELD"
                   ELSE IF dividend_yield > 0 THEN "LOW_YIELD"
                   ELSE "NO_DIVIDEND"]

\* calculate_intrinsic_value without financial statements; eps and book_value
\* are whole currency units, the results are in tenths, and the Graham number
\* sqrt(22.5 * eps * book_value) is kept as the tenfold of its radicand
CalculateIntrinsicValue(company_info) ==
    LET eps == Get(company_info, "eps", 0)
        book_value == Get(company_info, "book_value", 0)
    IN (IF eps > 0 /\ book_value > 0
        THEN [graham_number |-> 225 * eps * book_value] ELSE EmptyDict)
       @@ (IF eps > 0 THEN [pe_method |-> eps * 15 * 10] ELSE EmptyDict)
       @@ (IF book_value > 0 THEN [book_value_method |-> book_value * 15]
           ELSE EmptyDict)

\* a grade table whose top boundary is exclusive
GetGrade_Exclusive(score) ==
    IF score > 90 THEN "A+"
    ELSE IF score >= 80 THEN "A"
    ELSE IF score >= 70 THEN "B+"
    ELSE IF score >= 60 THEN "B"
    ELSE IF score >= 50 THEN "C+"
    ELSE IF score >= 40 THEN "C"
    ELSE IF score >= 30 THEN "D"
    ELSE "F"

\* _get_grade; the score is in points
GetGrade(score) ==
    IF score >= 90 THEN "A+"
    ELSE IF score >= 80 THEN "A"
    ELSE IF score >= 70 THEN "B+"
    ELSE IF score >= 60 THEN "B"
    ELSE IF score >= 50 THEN "C+"
    ELSE IF score >= 40 THEN "C"
    ELSE IF score >= 30 THEN "D"
    ELSE "F"

\* the four subscores of _calculate_fundamental_score
ValuationScore(status) ==
    IF status = "ATTRACTIVE" THEN 25 ELSE IF status = "FAIR" THEN 15 ELSE 5

ProfitabilityScore(status) ==
    IF status = "EXCELLENT" THEN 25
    ELSE IF status = "GOOD" THEN 20
    ELSE IF status = "AVERAGE" THEN 15
    ELSE 5

HealthScore(status) ==
    IF status = "EXCELLENT" THEN 25
    ELSE IF status = "GOOD" THEN 20
    ELSE IF status = "AVERAGE" THEN 15
    ELSE 5

\* a dividend subscore that uses the 0-25 scale of the other three
DividendScore_Upto25(status) ==
    IF status \in {"HIGH_YIELD", "GOOD_YIELD"} THEN 25
    ELSE IF status = "MODERATE_YIELD" THEN 15
    ELSE IF status = "LOW_YIELD" THEN 10
    ELSE 5

DividendScore(status) ==
    IF status \in {"HIGH_YIELD", "GOOD_YIELD"} THEN 20
    ELSE IF status = "MODERATE_YIELD" THEN 15
    ELSE IF status = "LOW_YIELD" THEN 10
    ELSE 5

\* _calculate_fundamental_score
CalculateFundamentalScore(analysis) ==
    LET scores == << ValuationScore(analysis.valuation_analysis.overall_valuation.status),
                     ProfitabilityScore(
                         analysis.profitability_analysis.overall_profitability.status),
                     HealthScore(
                         analysis.financial_health_analysis.overall_financial_health.status),
                     DividendScore(analysis.dividend_analysis.status) >>
        total_score == scores[1] + scores[2] + scores[3] + scores[4]
    IN [total_score |-> total_score,
        grade |-> GetGrade(total_score),
        breakdown |-> [valuation |-> scores[1],
                       profitability |-> scores[2],
                       financial_health |-> scores[3],
                       dividend |-> scores[4]]]

\* _get_fundamental_recommendation
GetFundamentalRecommendation(analysis) ==
    LET score == analysis.fundamental_score.total_score
    IN [recommendation |-> IF score >= 80 THEN "STRONG_BUY"
                           ELSE IF score >= 70 THEN "BUY"
                           ELSE IF score >= 60 THEN "HOLD"
                           ELSE IF score >= 40 THEN "WEAK_HOLD"
                           ELSE "SELL",
        score |-> score,
        confidence |-> Min(95, Max(50, score))]

\* comprehensive_fundamental_analysis(company_info)
ComprehensiveFundamentalAnalysis(company_info) ==
    LET analysis == [company_info |-> company_info,
                     valuation_analysis |-> AnalyzeValuationRatios(company_info),
                     profitability_analysis |-> AnalyzeProfitability(company_info),
                     financial_health_analysis |-> AnalyzeFinancialHealth(company_info),
                     dividend_analysis |-> AnalyzeDividend(company_info),
                     intrinsic_value_analysis |-> CalculateIntrinsicValue(company_info)]
        scored == analysis @@ [fundamental_score |-> CalculateFundamentalScore(analysis)]
    IN scored @@ [fundamental_recommendation |-> GetFundamentalRecommendation(scored)]

\* a field that is absent or has one of the values
Optional(key, values) == { EmptyDict } \cup { [k \in {key} |-> v] : v \in values }

\* the (industry, sector) strings of the profiles
IndustrySectors ==
    { EmptyDict,
      [industry |-> <<"B", "a", "n", "k", "i", "n", "g">>,
       sector |-> <<"F", "i", "n", "a", "n", "c", "e">>],
      [industry |-> <<"C", "o", "n", "s", "u", "m", "e", "r", " ", "G", "o", "o", "d", "s">>,
       sector |-> <<"B", "a", "n", "k", "i", "n", "g">>],
      [industry |-> <<"M", "I", "N", "I", "N", "G">>, sector |-> <<>>],
      [industry |-> <<"R", "e", "t", "a", "i", "l">>] }

\* revenue and net income (absent, no revenue, margins of 15 and 25 percent),
\* and with them market capitalisation, earnings per share and book value
Earnings ==
    { EmptyDict,
      [revenue |-> 0, net_income |-> 50],
      [revenue |-> 1000, net_income |-> 150],
      [revenue |-> 1000, net_income |-> 250],
      [revenue |-> 1000, net_income |-> 250,
       market_cap |-> 60, eps |-> 100, book_value |-> 400] }

\* the company profiles handed to the scorer
CompanyProfiles ==
    { names @@ pe @@ pb @@ roe @@ earnings @@ dte @@ beta @@ dividend :
        names \in IndustrySectors,
        pe \in Optional("pe_ratio", {120, 185}),
        pb \in Optional("pb_ratio", {0, 28}),
        roe \in Optional("roe", {120, 185}),
        earnings \in Earnings,
        dte \in Optional("debt_to_equity", {16, 120}),
        beta \in Optional("beta", {5, 13}),
        dividend \in Optional("dividend_yield", {5, 20, 70}) }

\* the numeric fields the four analyses read
NumericFields == {"pe_ratio", "pb_ratio", "roe", "revenue", "net_income",
                  "debt_to_equity", "beta", "dividend_yield"}

\* company_info without the field
Without(company_info, field) ==
    [k \in (DOMAIN company_info) \ {field} |-> company_info[k]]

\* the scores handed to the two grade functions, in points
MaxScore == 100

\* fundamental.comprehensive_fundamental_analysis(company_info)
FundamentalCall ==
    /\ pc = "idle"
    /\ \E company_info \in CompanyProfiles :
          result' = ComprehensiveFundamentalAnalysis(company_info)
    /\ call' = "comprehensive_fundamental_analysis"
    /\ pc' = "returned"
    /\ UNCHANGED <<technical_vars, previous>>
    /\ UNCHANGED <<risk_profiles, risk_profile, portfolio_vars, synth_vars>>
    /\ UNCHANGED passed

\* the caller analyses the profile again after a field that was present and
\* not 0 has been removed from it or set to 0
FundamentalAgain ==
    /\ pc = "returned"
    /\ call = "comprehensive_fundamental_analysis"
    /\ previous = None
    /\ NumericFields \subseteq DOMAIN result.company_info
    /\ \E field \in NumericFields, zeroed \in BOOLEAN :
          /\ result.company_info[field] # 0
          /\ result' = ComprehensiveFundamentalAnalysis(
                           IF zeroed
                           THEN [result.company_info EXCEPT ![field] = 0]
                           ELSE Without(result.company_info, field))
    /\ previous' = result
    /\ UNCHANGED <<risk_profiles, pc, risk_profile, portfolio_vars, synth_vars,
                   technical_vars, call>>
    /\ UNCHANGED passed

\* fundamental._get_grade(score) and engine._get_score_grade(score)
GradeCall ==
    /\ pc = "idle"
    /\ \E score \in 0..MaxScore :
          result' = [score |-> score,
                     get_grade |-> GetGrade(score),
                     get_score_grade |-> GetScoreGrade(score * 100)]
    /\ call' = "_get_grade"
    /\ pc' = "returned"
    /\ UNCHANGED <<technical_vars, previous>>
    /\ UNCHANGED <<risk_profiles, risk_profile, portfolio_vars, synth_vars>>
    /\ UNCHANGED passed

-----------------------------------------------------------------------------
(* The caller *)

\* the caller has consumed the returned value; the engine object lives on
Discard ==
    /\ pc \in {"analysed", "returned"}
    /\ pc' = "idle"
    /\ call' = ""
    /\ technical_analysis' = EmptyDict
    /\ fundamental_analysis' = EmptyDict
    /\ combined_score' = None
    /\ final_recommendation' = None
    /\ risk_management' = None
    /\ stocks_analysis' = <<>>
    /\ total_capital' = Zero
    /\ risk_profile' = "moderate"
    /\ qualified_stocks' = <<>>
    /\ idx' = 1
    /\ portfolio_recommendations' = <<>>
    /\ remaining_capital' = Zero
    /\ df' = NoFrame
    /\ indicators' = NoIndicators
    /\ signal_arg' = "HOLD"
    /\ result' = None
    /\ passed' = Objects(<<>>, EmptyDict, EmptyDict, risk_profiles)
    /\ previous' = None
    /\ UNCHANGED risk_profiles

Init ==
    /\ risk_profiles = InitRiskProfiles
    /\ pc = "idle"
    /\ stocks_analysis = <<>>
    /\ total_capital = Zero
    /\ risk_profile = "moderate"
    /\ qualified_stocks = <<>>
    /\ idx = 1
    /\ portfolio_recommendations = <<>>
    /\ remaining_capital = Zero
    /\ technical_analysis = EmptyDict
    /\ fundamental_analysis = EmptyDict
    /\ combined_score = None
    /\ final_recommendation = None
    /\ risk_management = None
    /\ df = NoFrame
    /\ indicators = NoIndicators
    /\ signal_arg = "HOLD"
    /\ call = ""
    /\ result = None
    /\ passed = Objects(<<>>, EmptyDict, EmptyDict, InitRiskProfiles)
    /\ previous = None

Next ==
    \/ PortfolioCall
    \/ AllocateStep
    \/ AllocateBreak
    \/ AllocateExhausted
    \/ PortfolioReturn
    \/ PortfolioAgain
    \/ Analyse
    \/ ComprehensiveCall
    \/ ComprehensiveAgain
    \/ CombinedScoreCall
    \/ FinalRecommendationCall
    \/ RiskManagementCall
    \/ FundamentalCall
    \/ FundamentalAgain
    \/ GradeCall
    \/ TrendCall
    \/ SignalsCall
    \/ SupportResistanceCall
    \/ PriceTargetsCall
    \/ ComprehensiveAnalysisCall
    \/ Discard

Spec == Init /\ [][Next]_vars

-----------------------------------------------------------------------------
(* Properties of the portfolio allocator *)

\* the exact value of a floating point number, in units of 2^-Scale
Scale == 2 * Precision + 2

Exact(a) == a.m * 2^(a.e + Scale)

\* the exact value of an integer in the same units
Units(n) == n * 2^Scale

\* the exact sum of the position sizes
RECURSIVE SumSizes(_)
SumSizes(positions) ==
    IF positions = <<>> THEN 0
    ELSE Exact(positions[1].position_size) + SumSizes(Tail(positions))

\* what is left of the capital after the given positions were subtracted one
\* after the other, as the loop does
RECURSIVE RemainingAfter(_, _)
RemainingAfter(capital, positions) ==
    IF positions = <<>> THEN capital
    ELSE Sub(RemainingAfter(capital, SubSeq(positions, 1, Len(positions) - 1)),
             positions[Len(positions)].position_size)

\* the documented profile table: minimum score and maximum position (percent)
DocMinScore(name) ==
    CASE name = "conservative" -> 70
      [] name = "aggressive" -> 50
      [] OTHER -> 60

DocMaxPositionPct(name) ==
    CASE name = "conservative" -> 5
      [] name = "aggressive" -> 12
      [] OTHER -> 8

\* the candidate of the caller's list a position was made from
SourceOf(position) == stocks_analysis[TickerIndex(position.ticker)]

\* C1: the sum of the position sizes allocated so far never exceeds the total
\* capital, after every iteration of the allocation loop and in the returned plan
C1_SumWithinCapital ==
    /\ Exact(total_capital) >= 0 =>
          SumSizes(portfolio_recommendations) <= Exact(total_capital)
    /\ (call = "generate_portfolio_recommendations" /\ pc = "returned"
          /\ Exact(total_capital) >= 0) =>
          SumSizes(result.portfolio_recommendations) <= Exact(total_capital)

\* the capital is used up by several positions
C1_Witness ==
    /\ pc = "alloc"
    /\ Exact(total_capital) > 0
    /\ Len(portfolio_recommendations) >= 9
    /\ SumSizes(portfolio_recommendations) = Exact(total_capital)

\* C3: no allocated position has a combined score below the min_score of the
\* selected profile (70 / 60 / 50, unknown names use 60), and a candidate
\* without a combined score counts as 0 and is never allocated
C3_NoneBelowMinScore ==
    \A k \in 1..Len(portfolio_recommendations) :
        LET position == portfolio_recommendations[k]
        IN /\ position.combined_score >= DocMinScore(risk_profile)
           /\ "combined_score" \in DOMAIN SourceOf(position)
           /\ SourceOf(position).combined_score.combined_score = position.combined_score

\* an unknown profile name, a candidate without a score and one below the
\* minimum were offered, and a position was allocated
C3_Witness ==
    /\ pc = "returned"
    /\ risk_profile = "balanced"
    /\ Len(portfolio_recommendations) = 1
    /\ \E i, j \in 1..Len(stocks_analysis) :
          /\ "combined_score" \notin DOMAIN stocks_analysis[i]
          /\ StockScore(stocks_analysis[j]) = 55

\* C4: the positions are in descending order of combined score, and positions
\* of equal score keep the relative order their candidates had in the input
C4_DescendingStable ==
    \A k, l \in 1..Len(portfolio_recommendations) :
        k < l =>
          LET a == portfolio_recommendations[k]
              b == portfolio_recommendations[l]
          IN /\ a.combined_score >= b.combined_score
             /\ a.combined_score = b.combined_score =>
                   TickerIndex(a.ticker) < TickerIndex(b.ticker)

\* an input that is not sorted and has a tie: the tie keeps its input order
\* and the higher score that came last is allocated first
C4_Witness ==
    /\ pc = "returned"
    /\ Len(portfolio_recommendations) = 3
    /\ portfolio_recommendations[1].ticker = Tickers[3]
    /\ portfolio_recommendations[2].ticker = Tickers[1]
    /\ portfolio_recommendations[3].ticker = Tickers[2]
    /\ portfolio_recommendations[2].combined_score =
          portfolio_recommendations[3].combined_score

\* C5: every position has size min(max_position_size x total capital, capital
\* remaining just before it was allocated); with capital 100 (x 1,000,000),
\* profile conservative and the candidates 90, 85, 70 each of the three
\* positions is 5 (x 1,000,000)
C5_PositionIsMinOfCapAndRemaining ==
    /\ \A k \in 1..Len(portfolio_recommendations) :
          LET before == RemainingAfter(total_capital,
                                       SubSeq(portfolio_recommendations, 1, k - 1))
              cap == Mul(total_capital, Fraction(DocMaxPositionPct(risk_profile)))
          IN portfolio_recommendations[k].position_size =
                IF Exact(cap) <= Exact(before) THEN cap ELSE before
    /\ ( /\ pc = "returned"
         /\ total_capital = FromInt(100)
         /\ risk_profile = "conservative"
         /\ Len(stocks_analysis) = 3
         /\ StockScore(stocks_analysis[1]) = 90
         /\ StockScore(stocks_analysis[2]) = 85
         /\ StockScore(stocks_analysis[3]) = 70 )
       => /\ result.number_of_positions = 3
          /\ \A k \in 1..3 :
                Exact(result.portfolio_recommendations[k].position_size) = Units(5)

\* the scenario has run, and elsewhere a last position got less than the cap
C5_Witness ==
    /\ pc = "returned"
    /\ total_capital = FromInt(100)
    /\ risk_profile = "conservative"
    /\ Len(stocks_analysis) = 3
    /\ StockScore(stocks_analysis[1]) = 90
    /\ StockScore(stocks_analysis[2]) = 85
    /\ StockScore(stocks_analysis[3]) = 70
    /\ Exact(result.total_allocated) = Units(15)

C5_WitnessPartial ==
    /\ pc = "returned"
    /\ risk_profile = "aggressive"
    /\ Len(portfolio_recommendations) = 9
    /\ Exact(portfolio_recommendations[9].position_size) = Units(4)

\* the positions are made from the first candidates of the sorted list, in order
AllocatedIsPrefix ==
    /\ Len(portfolio_recommendations) <= Len(qualified_stocks)
    /\ \A k \in 1..Len(portfolio_recommendations) :
          /\ portfolio_recommendations[k].ticker = qualified_stocks[k].ticker
          /\ portfolio_recommendations[k].combined_score =
                StockScore(qualified_stocks[k])

\* C6: candidates are processed in sorted order; every candidate whose turn
\* came got a position, a candidate is left out only if the remaining capital
\* was already zero, and once it is zero no further position is allocated
C6_GreedyPrefix ==
    /\ [](AllocatedIsPrefix
          /\ (pc = "alloc" => Len(portfolio_recommendations) = idx - 1)
          /\ (pc \in {"epilogue", "returned"}
                 /\ Len(portfolio_recommendations) < Len(qualified_stocks)
               => /\ Exact(remaining_capital) <= 0
                  /\ Exact(total_capital) >= 0 => Exact(remaining_capital) = 0))
    /\ [][(pc \in {"alloc", "epilogue"} /\ Exact(remaining_capital) <= 0)
            => portfolio_recommendations' = portfolio_recommendations]_vars

\* the capital ran out with candidates left over
C6_Witness ==
    /\ pc = "returned"
    /\ Exact(total_capital) > 0
    /\ Exact(remaining_capital) = 0
    /\ Len(portfolio_recommendations) = 9
    /\ Len(qualified_stocks) > 10

-----------------------------------------------------------------------------
(* Properties of the recommendation synthesizer *)

ComprehensiveReturned ==
    call = "generate_comprehensive_recommendation" /\ pc = "returned"

\* C2: generate_comprehensive_recommendation never raises; for every verdict,
\* score card and profile name it returns a record whose 'recommendation'
\* block has an action, a confidence and a time horizon
C2_NeverRaises ==
    ComprehensiveReturned =>
        /\ ~Raised(result)
        /\ "recommendation" \in DOMAIN result
        /\ {"action", "confidence", "time_horizon"} \subseteq DOMAIN result.recommendation

\* the documented action for a combined score (hundredths) and a minimum score
DocAction(score, min_score) ==
    IF score < min_score * 100 THEN "AVOID"
    ELSE IF score >= 8000 THEN "STRONG_BUY"
    ELSE IF score >= 7000 THEN "BUY"
    ELSE IF score >= 6000 THEN "HOLD"
    ELSE IF score >= 4000 THEN "WEAK_HOLD"
    ELSE "SELL"

\* the documented relation between a score and the action of a recommendation
FollowsActionTable(score, name, recommendation) ==
    /\ recommendation.action = DocAction(score, DocMinScore(name))
    /\ recommendation.action = "AVOID" =>
          recommendation.confidence = 9000 /\ recommendation.time_horizon = "N/A"
    /\ (score >= 8000 /\ name = "moderate") =>
          /\ recommendation.action = "STRONG_BUY"
          /\ recommendation.time_horizon = "6-12 months"

\* C7: the synthesized recommendation has action AVOID (confidence 90, no
\* horizon) when the combined score is below the profile's minimum, and
\* otherwise STRONG_BUY / BUY / HOLD / WEAK_HOLD / SELL by the thresholds
\* 80 / 70 / 60 / 40; a score of 80 or more under moderate gives STRONG_BUY
\* with confidence >= 80 and horizon '6-12 months'
C7_ActionByScore ==
    ComprehensiveReturned =>
        /\ ~Raised(result)
        /\ FollowsActionTable(result.combined_score.combined_score, risk_profile,
                              result.recommendation)
        /\ (result.combined_score.combined_score >= 8000 /\ risk_profile = "moderate")
             => result.recommendation.confidence >= 8000

\* _get_final_recommendation itself, handed the number, follows the table;
\* its confidence for a score of 80 or more is below 80 only after the
\* deduction for conflicting signals
FinalRecommendationFollowsTable ==
    final_recommendation # None =>
        /\ ~Raised(final_recommendation)
        /\ FollowsActionTable(combined_score.combined_score, risk_profile,
                              final_recommendation)
        /\ (combined_score.combined_score >= 8000 /\ risk_profile = "moderate"
               /\ Len(final_recommendation.reason) = 1)
             => final_recommendation.confidence >= 8000

\* C8: for a BUY-oriented recommendation (STRONG_BUY or BUY) with an entry
\* price > 0 the risk block has stop_loss < entry_price < take_profit
C8_BuyStopEntryTarget ==
    ( /\ final_recommendation # None
      /\ risk_management # None
      /\ ~Raised(final_recommendation)
      /\ final_recommendation.action \in {"STRONG_BUY", "BUY"}
      /\ risk_management # EmptyDict
      /\ risk_management.entry_price > 0 )
    => /\ risk_management.stop_loss < risk_management.entry_price
       /\ risk_management.entry_price < risk_management.take_profit

-----------------------------------------------------------------------------
(* Properties of the fundamental scorer and of the grades *)

FundamentalReturned ==
    call = "comprehensive_fundamental_analysis" /\ pc = "returned"

\* C9: for every company profile the total score lies in [20, 100], is the sum
\* of the four subscores, and valuation, profitability and financial health
\* lie in 0..25, dividend in 0..20
C9_ScoreInRange ==
    FundamentalReturned =>
        LET score == result.fundamental_score
            breakdown == score.breakdown
        IN /\ score.total_score >= 20 /\ score.total_score <= 100
           /\ score.total_score = breakdown.valuation + breakdown.profitability
                                    + breakdown.financial_health + breakdown.dividend
           /\ breakdown.valuation \in 0..25
           /\ breakdown.profitability \in 0..25
           /\ breakdown.financial_health \in 0..25
           /\ breakdown.dividend \in 0..20

\* a profile whose every category is the best one
C9_Witness ==
    /\ FundamentalReturned
    /\ result.fundamental_score.total_score = 95
    /\ result.fundamental_score.breakdown.dividend = 20

\* a profile with no field at all is scored, and one scores the minimum
C9_WitnessEmpty ==
    /\ FundamentalReturned
    /\ result.company_info = EmptyDict
    /\ result.fundamental_score.total_score = 60

C9_WitnessLowest ==
    /\ FundamentalReturned
    /\ result.fundamental_score.total_score = 20

\* the documented grade table
DocGrade(score) ==
    CASE score >= 90 -> "A+"
      [] score >= 80 /\ score < 90 -> "A"
      [] score >= 70 /\ score < 80 -> "B+"
      [] score >= 60 /\ score < 70 -> "B"
      [] score >= 50 /\ score < 60 -> "C+"
      [] score >= 40 /\ score < 50 -> "C"
      [] score >= 30 /\ score < 40 -> "D"
      [] OTHER -> "F"

GradeRank(grade) ==
    CASE grade = "A+" -> 7 [] grade = "A" -> 6 [] grade = "B+" -> 5
      [] grade = "B" -> 4 [] grade = "C+" -> 3 [] grade = "C" -> 2
      [] grade = "D" -> 1 [] OTHER -> 0

\* C10: the grade is the step function A+ >= 90, A >= 80, B+ >= 70, B >= 60,
\* C+ >= 50, C >= 40, D >= 30, else F; no lower score gets a higher grade;
\* _get_grade and _get_score_grade return the same grade for every score
C10_GradeStepFunction ==
    (call = "_get_grade" /\ pc = "returned") =>
        /\ result.get_grade = DocGrade(result.score)
        /\ result.get_score_grade = result.get_grade
        /\ \A lower \in 0..result.score :
              /\ GradeRank(GetGrade(lower)) <= GradeRank(result.get_grade)
              /\ GradeRank(GetScoreGrade(lower * 100)) <= GradeRank(result.get_score_grade)

\* a boundary score was graded
C10_Witness ==
    /\ call = "_get_grade"
    /\ pc = "returned"
    /\ result.score = 90
    /\ result.get_grade = "A+"
    /\ result.get_score_grade = "A+"

-----------------------------------------------------------------------------
(* Properties of the combined score and of the technical analysis *)

Abs(n) == IF n < 0 THEN -n ELSE n

\* the documented inputs of the combined score, 50 where one is missing
DocSignalScore(technical) ==
    LET block == IF "signal_analysis" \in DOMAIN technical
                 THEN technical.signal_analysis ELSE EmptyDict
    IN IF "signal" \notin DOMAIN block THEN 5000
       ELSE IF block.signal = "BUY" THEN 7500
       ELSE IF block.signal = "SELL" THEN 2500
       ELSE 5000

DocInput(dict, block, key) ==
    IF block \in DOMAIN dict /\ key \in DOMAIN dict[block] THEN dict[block][key] ELSE 5000

\* C11: the combined score is 0.4 x technicalScore + 0.6 x fundamentalScore,
\* technicalScore being the average of the signal score (BUY 75, SELL 25,
\* anything else 50), the confidence and the trend strength, all three and
\* the fundamental score defaulting to 50; the reported values are within
\* half a hundredth (the 2-decimal rounding) of the exact ones
C11_CombinedIsWeightedSum ==
    combined_score # None =>
        LET technical_x3 == DocSignalScore(technical_analysis)
                            + DocInput(technical_analysis, "signal_analysis", "confidence")
                            + DocInput(technical_analysis, "trend_analysis", "strength")
            fundamental == DocInput(fundamental_analysis, "fundamental_score", "total_score")
        IN /\ 2 * Abs(3 * combined_score.technical_score - technical_x3) <= 3
           /\ combined_score.fundamental_score = fundamental
           /\ 2 * Abs(30 * combined_score.combined_score
                      - (4 * technical_x3 + 18 * fundamental)) <= 30

\* a SELL verdict (confidence 100, strength 66.67) with a score card of 85:
\* technical 63.89, combined 76.56
C11_Witness ==
    /\ combined_score # None
    /\ DocSignalScore(technical_analysis) = 2500
    /\ combined_score.technical_score = 6389
    /\ combined_score.fundamental_score = 8500
    /\ combined_score.combined_score = 7656

\* C12: for a frame of fewer than 50 bars (the empty frame included)
\* generate_signals returns HOLD with confidence 0 and analyze_trend returns
\* UNKNOWN with strength 0 and no signals; neither raises
C12_ShortFrameIsNeutral ==
    (pc = "returned" /\ df.bars < 50) =>
        /\ call = "generate_signals" =>
              /\ ~Raised(result)
              /\ result.signal = "HOLD"
              /\ result.confidence = 0
        /\ call = "analyze_trend" =>
              /\ ~Raised(result)
              /\ result.trend = "UNKNOWN"
              /\ result.strength = 0
              /\ result.signals = <<>>

\* generate_signals on 49 bars whose five indicators all vote BUY
C12_Witness ==
    /\ pc = "returned"
    /\ call = "generate_signals"
    /\ df.bars = 49
    /\ \A i \in 1..5 : indicators.votes[i] = "BUY"
    /\ result.signal = "HOLD"

\* analyze_trend on 49 bars with three bullish readings
C12_WitnessTrend ==
    /\ pc = "returned"
    /\ call = "analyze_trend"
    /\ df.bars = 49
    /\ indicators.ma = "BULLISH" /\ indicators.macd = "BULLISH"
    /\ result.trend = "UNKNOWN"

-----------------------------------------------------------------------------
(* Properties of the valuation analysis *)

\* the documented vote of a ratio block: +1 below the benchmark low, -1 above
\* the benchmark high, 0 within the range
DocVote(ratio_analysis) ==
    IF ratio_analysis.current < ratio_analysis.industry_low THEN 1
    ELSE IF ratio_analysis.current > ratio_analysis.industry_high THEN -1
    ELSE 0

\* C13: the overall valuation status is ATTRACTIVE when the sum of the P/E and
\* P/B votes (+1 below the benchmark low, 0 within the range, -1 above the
\* benchmark high) is >= 1, EXPENSIVE when it is <= -1, else FAIR, and the
\* valuation subscore is 25 / 15 / 5; P/E 18.5 and P/B 2.8 against the banking
\* benchmark (8-15, 1-2) are both overvalued: EXPENSIVE, subscore 5
C13_ValuationByVotes ==
    FundamentalReturned =>
        LET valuation == result.valuation_analysis
            votes == DocVote(valuation.pe_analysis) + DocVote(valuation.pb_analysis)
            status == valuation.overall_valuation.status
            info == result.company_info
        IN /\ valuation.pe_analysis.current = Get(info, "pe_ratio", 0)
           /\ valuation.pb_analysis.current = Get(info, "pb_ratio", 0)
           /\ status = (IF votes >= 1 THEN "ATTRACTIVE"
                        ELSE IF votes <= -1 THEN "EXPENSIVE" ELSE "FAIR")
           /\ result.fundamental_score.breakdown.valuation =
                 (IF status = "ATTRACTIVE" THEN 25 ELSE IF status = "FAIR" THEN 15 ELSE 5)
           /\ ( /\ "industry" \in DOMAIN info
                /\ info.industry = <<"B", "a", "n", "k", "i", "n", "g">>
                /\ Get(info, "pe_ratio", 0) = 185
                /\ Get(info, "pb_ratio", 0) = 28 )
              => /\ valuation.pe_analysis.industry_low = 80
                 /\ valuation.pe_analysis.industry_high = 150
                 /\ valuation.pb_analysis.industry_low = 10
                 /\ valuation.pb_analysis.industry_high = 20
                 /\ valuation.pe_analysis.status = "OVERvalued"
                 /\ valuation.pb_analysis.status = "OVERvalued"
                 /\ status = "EXPENSIVE"
                 /\ result.fundamental_score.breakdown.valuation = 5

\* a P/E below the range and a P/B above it: the votes cancel, FAIR, 15
C13_Witness ==
    /\ FundamentalReturned
    /\ DocVote(result.valuation_analysis.pe_analysis) = 1
    /\ DocVote(result.valuation_analysis.pb_analysis) = -1
    /\ result.valuation_analysis.overall_valuation.status = "FAIR"
    /\ result.fundamental_score.breakdown.valuation = 15

\* the banking example of the claim
C13_WitnessBanking ==
    /\ FundamentalReturned
    /\ "industry" \in DOMAIN result.company_info
    /\ result.company_info.industry = <<"B", "a", "n", "k", "i", "n", "g">>
    /\ Get(result.company_info, "pe_ratio", 0) = 185
    /\ Get(result.company_info, "pb_ratio", 0) = 28
    /\ result.fundamental_score.breakdown.valuation = 5

\* the keys of a complete score card
ScoreCardKeys == {"valuation_analysis", "profitability_analysis",
                  "financial_health_analysis", "dividend_analysis",
                  "fundamental_score", "fundamental_recommendation"}

\* C14: a missing field never aborts the analysis and only depresses the
\* score: the profile with a numeric field removed or set to 0 still gets a
\* complete score card, and its total score is not higher than the total
\* score of the same profile with the field present and not 0
C14_MissingOnlyDepresses ==
    (FundamentalReturned /\ previous # None) =>
        /\ ~Raised(result)
        /\ ScoreCardKeys \subseteq DOMAIN result
        /\ result.fundamental_score.total_score
              <= previous.fundamental_score.total_score

\* the analysis of the changed profile always returns a complete score card
MissingNeverAborts ==
    (FundamentalReturned /\ previous # None) =>
        /\ ~Raised(result)
        /\ ScoreCardKeys \subseteq DOMAIN result

-----------------------------------------------------------------------------
(* Properties of the engine as a whole *)

\* no operation writes to the engine object
EngineIsStateless == risk_profiles = InitRiskProfiles

\* C15: two invocations of generate_comprehensive_recommendation, or of
\* generate_portfolio_recommendations, with equal arguments return equal
\* results in every field, whenever they are made
C15_EqualArgumentsEqualResults ==
    ( /\ pc = "returned"
      /\ previous # None
      /\ call \in {"generate_comprehensive_recommendation",
                    "generate_portfolio_recommendations"} )
    => /\ ~Raised(previous)
       /\ ~Raised(result)
       /\ result = previous

\* the allocator alone: the second plan equals the first
PortfolioIsDeterministic ==
    (pc = "returned" /\ previous # None /\ call = "generate_portfolio_recommendations")
    => result = previous

\* the largest position percentage of a plan in exact units, 0 for the empty plan
MaxPercentage(positions) ==
    IF positions = <<>> THEN 0
    ELSE LET percentages == { Exact(positions[i].position_percentage) :
                                i \in 1..Len(positions) }
         IN CHOOSE x \in percentages : \A y \in percentages : y <= x

\* the documented tiers, evaluated top to bottom
DocTier(p, n) ==
    IF p <= Units(5) /\ n >= 15 THEN <<100, "Excellent">>
    ELSE IF p <= Units(8) /\ n >= 10 THEN <<80, "Good">>
    ELSE IF p <= Units(12) /\ n >= 7 THEN <<60, "Moderate">>
    ELSE IF p <= Units(15) /\ n >= 5 THEN <<40, "Poor">>
    ELSE <<20, "Very Poor">>

PortfolioReturned == call = "generate_portfolio_recommendations" /\ pc = "returned"

\* C16: the diversification result follows the tiers on (largest position
\* percentage p, number of positions n): p <= 5 and n >= 15 gives
\* 100/Excellent, p <= 8 and n >= 10 gives 80/Good, p <= 12 and n >= 7 gives
\* 60/Moderate, p <= 15 and n >= 5 gives 40/Poor, and every other plan gives
\* 20/Very Poor
C16_DiversificationByTiers ==
    PortfolioReturned =>
        LET plan == result.portfolio_recommendations
            tier == DocTier(MaxPercentage(plan), Len(plan))
        IN /\ result.diversification_score.score = tier[1]
           /\ result.diversification_score.status = tier[2]

\* C16 as amended: a plan with at least one position follows the tiers; the
\* plan with no positions gives 0/No positions
C16_DiversificationByTiersOrEmpty ==
    PortfolioReturned =>
        LET plan == result.portfolio_recommendations
            tier == DocTier(MaxPercentage(plan), Len(plan))
        IN IF plan = <<>>
           THEN /\ result.diversification_score.score = 0
                /\ result.diversification_score.status = "No positions"
           ELSE /\ result.diversification_score.score = tier[1]
                /\ result.diversification_score.status = tier[2]

\* a conservative plan of at least 15 positions of 5 percent each
C16_Witness ==
    /\ PortfolioReturned
    /\ Len(result.portfolio_recommendations) >= 15
    /\ MaxPercentage(result.portfolio_recommendations) = Units(5)
    /\ result.diversification_score.score = 100

\* the empty plan
C16_WitnessEmpty ==
    /\ PortfolioReturned
    /\ stocks_analysis # <<>>
    /\ Exact(total_capital) > 0
    /\ result.portfolio_recommendations = <<>>
    /\ result.diversification_score.score = 0

-----------------------------------------------------------------------------
(* Properties of the price targets *)

PriceTargetsReturned == call = "calculate_price_targets" /\ pc = "returned"

\* the number a target holds
NumberOf(targets, key) == IF key \in LevelKeys THEN targets[key][1] ELSE targets[key]

\* the percentage deviation of a value from the current price, to 2 decimals
PercentageOf(value, current_price) ==
    RoundDiv((value - current_price) * 10000, current_price)

TargetKeys == {"atr", "take_profit_1", "take_profit_2", "take_profit_3",
               "stop_loss", "stop_loss_2", "support", "resistance"}

\* C18: calculate_price_targets on at least 20 bars returns normally for BUY,
\* SELL and HOLD, and for every numeric target k other than the current price
\* the result holds k_pct, the percentage deviation of k from the current
\* price
C18_TargetsWithPercentages ==
    (PriceTargetsReturned /\ df.bars >= 20) =>
        /\ ~Raised(result)
        /\ \A key \in TargetKeys \cap DOMAIN result :
              IsNumber(result, key) =>
                  /\ (key \o "_pct") \in DOMAIN result
                  /\ result[key \o "_pct"] =
                        PercentageOf(NumberOf(result, key), result.current_price)

\* the targets of the frame in df as they stand before the percentage loop
TargetsBeforePercentages ==
    BuildTargets(df.close, df.atr, signal_arg, IdentifySupportResistance(df, 20))

\* the documented BUY targets of a frame: the tiers, the stop-losses and the
\* fallbacks of the third tier and of the secondary stop
BuyTargetsAsDocumented(targets) ==
    LET entry == df.close
        atr == IF df.atr = <<>> THEN (entry * 2) \div 100 ELSE df.atr[1]
        levels == IdentifySupportResistance(df, 20)
        nearest(key) == IF key \in DOMAIN levels THEN levels[key] ELSE <<>>
    IN /\ targets.atr = atr
       /\ targets.take_profit_1 = entry + 2 * atr
       /\ targets.take_profit_2 = entry + 3 * atr
       /\ targets.take_profit_3 =
              (IF nearest("nearest_resistance") # <<>> THEN nearest("nearest_resistance")
               ELSE <<(entry * 110) \div 100>>)
       /\ targets.stop_loss = entry - (3 * atr) \div 2
       /\ targets.stop_loss_2 =
              (IF nearest("nearest_support") # <<>> THEN nearest("nearest_support")
               ELSE <<(entry * 95) \div 100>>)

\* C19: for a BUY signal on at least 20 bars the returned targets are
\* take_profit_1 = entry + 2 ATR, take_profit_2 = entry + 3 ATR, take_profit_3
\* = the nearest resistance, or entry x 1.10 when there is none, stop_loss =
\* entry - 1.5 ATR, stop_loss_2 = the nearest support, or entry x 0.95 when
\* there is none; ATR is 2 percent of the price when it is undefined
C19_BuyTargets ==
    (PriceTargetsReturned /\ signal_arg = "BUY" /\ df.bars >= 20) =>
        /\ ~Raised(result)
        /\ BuyTargetsAsDocumented(result)

\* the same of the targets as they stand before the percentage loop
BuyTargetsBeforePercentages ==
    (PriceTargetsReturned /\ signal_arg = "BUY" /\ df.bars >= 20) =>
        BuyTargetsAsDocumented(TargetsBeforePercentages)

-----------------------------------------------------------------------------
(* Properties of the confidence *)

\* the base confidence of a combined score (hundredths)
DocBaseConfidence(score) ==
    IF score >= 8000 THEN Min(9500, score)
    ELSE IF score >= 7000 THEN Min(8500, score + 1000)
    ELSE IF score >= 6000 THEN 7000
    ELSE IF score >= 4000 THEN 6000
    ELSE Min(8500, 10000 - score + 1000)

\* round(x, 1) of a value in hundredths
DocRoundTenth(x) == ((x + 5) \div 10) * 10

DocAgree(technical_signal, fundamental_rec) ==
    \/ technical_signal = "BUY" /\ fundamental_rec \in {"BUY", "STRONG_BUY"}
    \/ technical_signal = "SELL" /\ fundamental_rec = "SELL"

DocConflict(technical_signal, fundamental_rec) ==
    \/ technical_signal = "BUY" /\ fundamental_rec = "SELL"
    \/ technical_signal = "SELL" /\ fundamental_rec \in {"BUY", "STRONG_BUY"}

\* the arguments of the _get_final_recommendation call
SignalArgument ==
    IF "signal_analysis" \in DOMAIN technical_analysis
       /\ "signal" \in DOMAIN technical_analysis.signal_analysis
    THEN technical_analysis.signal_analysis.signal ELSE "HOLD"

RecommendationArgument ==
    IF "fundamental_recommendation" \in DOMAIN fundamental_analysis
    THEN fundamental_analysis.fundamental_recommendation.recommendation ELSE "HOLD"

\* C20: the confidence is the base confidence raised by 10 and capped at 95
\* when the technical signal and the fundamental recommendation agree,
\* lowered by 15 and floored at 40, with a conflict annotation appended to
\* the reason, when they conflict, and unchanged otherwise; it is always
\* within [0, 100], and an AVOID result keeps confidence 90 and its reason
C20_ConfidenceAdjustment ==
    final_recommendation # None =>
        /\ ~Raised(final_recommendation)
        /\ LET base == DocBaseConfidence(combined_score.combined_score)
               agree == DocAgree(SignalArgument, RecommendationArgument)
               conflict == DocConflict(SignalArgument, RecommendationArgument)
               confidence == final_recommendation.confidence
               reason == final_recommendation.reason
           IN /\ confidence >= 0 /\ confidence <= 10000
              /\ IF final_recommendation.action = "AVOID"
                 THEN confidence = 9000 /\ Len(reason) = 1
                 ELSE IF agree
                 THEN /\ confidence = DocRoundTenth(Min(9500, base + 1000))
                      /\ Len(reason) = 1
                 ELSE IF conflict
                 THEN /\ confidence = DocRoundTenth(Max(4000, base - 1500))
                      /\ Len(reason) = 2
                      /\ reason[2] = " (Conflicting signals detected)"
                 ELSE /\ confidence = DocRoundTenth(base)
                      /\ Len(reason) = 1

\* a SELL signal against a STRONG_BUY score card: 90 - 15
C20_Witness ==
    /\ final_recommendation # None
    /\ SignalArgument = "SELL"
    /\ RecommendationArgument = "STRONG_BUY"
    /\ final_recommendation.action = "STRONG_BUY"
    /\ final_recommendation.confidence = 7500
    /\ Len(final_recommendation.reason) = 2

\* agreement at the cap: a base confidence of 95 stays 95
C20_WitnessCap ==
    /\ final_recommendation # None
    /\ SignalArgument = "BUY"
    /\ RecommendationArgument = "STRONG_BUY"
    /\ combined_score.combined_score >= 9500
    /\ final_recommendation.confidence = 9500

-----------------------------------------------------------------------------
(* Properties of the risk block *)

\* the documented stop-loss and take-profit fractions of a profile, in percent
DocStopLossPct(name) ==
    CASE name = "conservative" -> 8
      [] name = "aggressive" -> 15
      [] OTHER -> 10

DocTakeProfitPct(name) ==
    CASE name = "conservative" -> 15
      [] name = "aggressive" -> 30
      [] OTHER -> 20

\* the price targets the risk block was computed from
RiskTargets == Get(technical_analysis, "price_targets", EmptyDict)

\* the entry price of the verdict, 0 when it has none
RiskEntry == Get(RiskTargets, "current_price", 0)

\* the documented stop-loss: the higher of the profile's and the technical one
DocStopLoss ==
    LET profile_stop == (RiskEntry * (100 - DocStopLossPct(risk_profile))) \div 100
    IN IF "stop_loss" \in DOMAIN RiskTargets /\ RiskTargets.stop_loss > profile_stop
       THEN RiskTargets.stop_loss
       ELSE profile_stop

\* the documented take-profit: the lower of the profile's and the first technical one
DocTakeProfit ==
    LET profile_take == (RiskEntry * (100 + DocTakeProfitPct(risk_profile))) \div 100
    IN IF "take_profit_1" \in DOMAIN RiskTargets /\ RiskTargets.take_profit_1 < profile_take
       THEN RiskTargets.take_profit_1
       ELSE profile_take

\* C21: the risk block's stop-loss is the higher of entry x (1 - profile stop
\* fraction) and the technical stop-loss, its take-profit the lower of
\* entry x (1 + profile take fraction) and the first technical take-profit;
\* the risk/reward ratio is (take_profit - entry) / (entry - stop_loss) when
\* entry - stop_loss > 0 and exactly 0 otherwise; a verdict without an entry
\* price, or with entry price 0, gives an empty risk block
C21_RiskBlock ==
    risk_management # None =>
        IF RiskEntry = 0 THEN risk_management = EmptyDict
        ELSE /\ risk_management.entry_price = RiskEntry
             /\ risk_management.stop_loss = DocStopLoss
             /\ risk_management.take_profit = DocTakeProfit
             /\ risk_management.risk_reward_ratio =
                   IF RiskEntry - DocStopLoss > 0
                   THEN RoundDiv((DocTakeProfit - RiskEntry) * 100,
                                 RiskEntry - DocStopLoss)
                   ELSE 0

\* both technical levels are tighter than the profile's: ratio 4.00 / 3.00
C21_Witness ==
    /\ risk_management # None
    /\ RiskEntry = 10000
    /\ risk_profile = "moderate"
    /\ risk_management.stop_loss = 9700
    /\ risk_management.take_profit = 10400
    /\ risk_management.risk_reward_ratio = 133

\* a flat ATR puts the technical stop at the entry: the denominator is zero
C21_WitnessZeroRisk ==
    /\ risk_management # None
    /\ RiskEntry = 10000
    /\ risk_management.stop_loss = 10000
    /\ risk_management.risk_amount = 0
    /\ risk_management.risk_reward_ratio = 0

\* a SELL verdict puts the technical stop above the entry: the denominator is negative
C21_WitnessNegativeRisk ==
    /\ risk_management # None
    /\ RiskEntry = 10000
    /\ risk_management.risk_amount < 0
    /\ risk_management.risk_reward_ratio = 0

\* no entry price at all, and an entry price of zero
C21_WitnessNoEntry ==
    /\ risk_management = EmptyDict
    /\ "price_targets" \notin DOMAIN technical_analysis

C21_WitnessZeroEntry ==
    /\ risk_management = EmptyDict
    /\ "price_targets" \in DOMAIN technical_analysis
    /\ "current_price" \in DOMAIN technical_analysis.price_targets

-----------------------------------------------------------------------------
(* Properties of the signals and of the trend *)

SignalsReturned == call = "generate_signals" /\ pc = "returned"

TrendReturned == call = "analyze_trend" /\ pc = "returned"

\* the two tags of each of the five rules: the buy tag and the sell tag
RuleTags ==
    << <<"RSI_OVERSOLD", "RSI_OVERBOUGHT">>,
       <<"MACD_BULLISH_CROSS", "MACD_BEARISH_CROSS">>,
       <<"BB_OVERSOLD", "BB_OVERBOUGHT">>,
       <<"MA_BULLISH_CROSS", "MA_BEARISH_CROSS">>,
       <<"STOCH_OVERSOLD", "STOCH_OVERBOUGHT">> >>

\* how often a tag occurs in a list of tags
Occurrences(tags, tag) == Cardinality({ k \in 1..Len(tags) : tags[k] = tag })

\* C22: on a frame of at least 50 bars each of the five rules casts at most
\* one vote and never votes both ways, so buy + sell <= 5; the signal is BUY
\* iff buy > sell, SELL iff sell > buy, and HOLD with confidence 50 on a tie
\* or with no vote; the confidence of BUY / SELL is winning / total x 100,
\* above 50 and at most 100
C22_SignalByVotes ==
    (SignalsReturned /\ df.bars >= 50) =>
        LET buy == result.buy_signals
            sell == result.sell_signals
        IN /\ \A i \in 1..5 :
                 Occurrences(result.signals, RuleTags[i][1])
                   + Occurrences(result.signals, RuleTags[i][2]) <= 1
           /\ buy = Cardinality({ i \in 1..5 :
                                    Occurrences(result.signals, RuleTags[i][1]) = 1 })
           /\ sell = Cardinality({ i \in 1..5 :
                                     Occurrences(result.signals, RuleTags[i][2]) = 1 })
           /\ Len(result.signals) = buy + sell
           /\ buy + sell <= 5
           /\ result.signal = "BUY" <=> buy > sell
           /\ result.signal = "SELL" <=> sell > buy
           /\ result.signal = "HOLD" <=> buy = sell
           /\ result.signal = "HOLD" => result.confidence = 5000
           /\ result.signal = "BUY" =>
                 result.confidence = RoundDiv(buy * 10000, buy + sell)
           /\ result.signal = "SELL" =>
                 result.confidence = RoundDiv(sell * 10000, buy + sell)
           /\ result.signal \in {"BUY", "SELL"} =>
                 result.confidence > 5000 /\ result.confidence <= 10000

\* three rules vote to buy and two to sell: BUY with confidence 60
C22_Witness ==
    /\ SignalsReturned
    /\ df.bars >= 50
    /\ result.buy_signals = 3
    /\ result.sell_signals = 2
    /\ result.signal = "BUY"
    /\ result.confidence = 6000

\* a tie of two against two, and no vote at all
C22_WitnessTie ==
    /\ SignalsReturned
    /\ df.bars >= 50
    /\ result.buy_signals = 2
    /\ result.sell_signals = 2
    /\ result.signal = "HOLD"

C22_WitnessNoVote ==
    /\ SignalsReturned
    /\ df.bars >= 50
    /\ result.signals = <<>>
    /\ result.confidence = 5000

\* the documented votes of the three trend rules on the readings
DocBullish ==
    (IF indicators.ma = "BULLISH" THEN 1 ELSE 0)
    + (IF indicators.macd = "BULLISH" THEN 1 ELSE 0)
    + (IF indicators.price_change_20d > 500 THEN 1 ELSE 0)

DocBearish ==
    (IF indicators.ma = "BEARISH" THEN 1 ELSE 0)
    + (IF indicators.macd = "BEARISH" THEN 1 ELSE 0)
    + (IF indicators.price_change_20d < -500 THEN 1 ELSE 0)

\* C23: on a frame of at least 50 bars the three rules vote independently
\* (moving averages, MACD against its signal line, a 20-bar price change
\* beyond +-5 %); the trend is the majority direction with strength
\* winning votes / votes cast x 100, and a tie, also the one without any
\* vote, is NEUTRAL with strength 50, so nothing is divided by zero
C23_TrendByMajority ==
    (TrendReturned /\ df.bars >= 50) =>
        /\ ~Raised(result)
        /\ Len(result.signals) = DocBullish + DocBearish
        /\ DocBullish > DocBearish =>
              /\ result.trend = "BULLISH"
              /\ result.strength = RoundDiv(DocBullish * 10000, DocBullish + DocBearish)
        /\ DocBearish > DocBullish =>
              /\ result.trend = "BEARISH"
              /\ result.strength = RoundDiv(DocBearish * 10000, DocBullish + DocBearish)
        /\ DocBullish = DocBearish =>
              /\ result.trend = "NEUTRAL"
              /\ result.strength = 5000

\* two bullish readings against one bearish: BULLISH with strength 66.67
C23_Witness ==
    /\ TrendReturned
    /\ df.bars >= 50
    /\ DocBullish = 2
    /\ DocBearish = 1
    /\ result.trend = "BULLISH"
    /\ result.strength = 6667

\* no rule votes: the averages and the MACD are NaN, the price moved 5 % exactly
C23_WitnessNoVote ==
    /\ TrendReturned
    /\ df.bars >= 50
    /\ indicators.ma = "NAN" /\ indicators.macd = "NAN"
    /\ indicators.price_change_20d = 500
    /\ result.trend = "NEUTRAL"
    /\ result.signals = <<>>

\* a single bearish vote decides with strength 100
C23_WitnessSingle ==
    /\ TrendReturned
    /\ df.bars >= 50
    /\ DocBullish = 0 /\ DocBearish = 1
    /\ result.trend = "BEARISH"
    /\ result.strength = 10000

-----------------------------------------------------------------------------
(* Properties of the support and resistance levels *)

SupportResistanceReturned == call = "identify_support_resistance" /\ pc = "returned"

\* the elements of a list
Elements(list) == { list[i] : i \in 1..Len(list) }

\* the n largest and the n smallest elements of a set of numbers
Highest(levels, n) ==
    { x \in levels : Cardinality({ y \in levels : y > x }) < n }

Lowest(levels, n) ==
    { x \in levels : Cardinality({ y \in levels : y < x }) < n }

\* a list of numbers is strictly descending / ascending
IsDescending(list) == \A i, j \in 1..Len(list) : i < j => list[i] > list[j]

IsAscending(list) == \A i, j \in 1..Len(list) : i < j => list[i] < list[j]

\* the documented nearest levels: over all the candidates of the frame
DocNearestResistance ==
    LET above == { h \in df.highs : h > df.close }
    IN IF above = {} THEN <<>> ELSE <<CHOOSE h \in above : \A x \in above : h <= x>>

DocNearestSupport ==
    LET below == { l \in df.lows : l < df.close }
    IN IF below = {} THEN <<>> ELSE <<CHOOSE l \in below : \A x \in below : x <= l>>

\* C24: the nearest resistance is the lowest resistance candidate strictly
\* above the last close and the nearest support the highest support candidate
\* strictly below it, absent when there is none; the candidates are the highs
\* (lows) equal to the centred rolling maximum (minimum), without duplicates,
\* and the returned lists keep the 5 highest resistance and the 5 lowest
\* support levels.  Stated for the frames of more than 2 x window bars, on
\* which the two loops of the code have a bar to visit.
C24_NearestLevels ==
    (SupportResistanceReturned /\ df.bars > 40) =>
        /\ result.nearest_resistance = DocNearestResistance
        /\ result.nearest_support = DocNearestSupport
        /\ Elements(result.resistance) = Highest(df.highs, 5)
        /\ Elements(result.support) = Lowest(df.lows, 5)
        /\ IsDescending(result.resistance)
        /\ IsAscending(result.support)

\* what the code does: the nearest levels are sought among the levels kept
C24_NearestAmongKept ==
    (SupportResistanceReturned /\ df.bars > 40) =>
        LET above == { h \in Highest(df.highs, 5) : h > df.close }
            below == { l \in Lowest(df.lows, 5) : l < df.close }
        IN /\ result.nearest_resistance =
                 IF above = {} THEN <<>>
                 ELSE <<CHOOSE h \in above : \A x \in above : h <= x>>
           /\ result.nearest_support =
                 IF below = {} THEN <<>>
                 ELSE <<CHOOSE l \in below : \A x \in below : x <= l>>
           /\ Elements(result.resistance) = Highest(df.highs, 5)
           /\ Elements(result.support) = Lowest(df.lows, 5)

\* seven resistance candidates above the close: the two nearest are dropped
C24_SevenCandidates ==
    /\ SupportResistanceReturned
    /\ Cardinality(df.highs) = 7
    /\ df.bars > 40
    /\ result.nearest_resistance = <<10300>>
    /\ result.nearest_support = <<9700>>

-----------------------------------------------------------------------------
(* Properties of the benchmark lookup *)

\* the lower-cased text of a field of the analysed profile, '' when it is missing
ProfileText(field) == Lower(Get(result.company_info, field, <<>>))

\* the k-th benchmark key occurs in the industry or in the sector
KeyOccurs(k) ==
    \/ Contains(BenchmarkKeys[k].chars, ProfileText("industry"))
    \/ Contains(BenchmarkKeys[k].chars, ProfileText("sector"))

\* the documented lookup: banking, consumer, infrastructure, mining,
\* telecommunication in this order, else default
DocBenchmark ==
    IF KeyOccurs(1) THEN IndustryBenchmarks.banking
    ELSE IF KeyOccurs(2) THEN IndustryBenchmarks.consumer
    ELSE IF KeyOccurs(3) THEN IndustryBenchmarks.infrastructure
    ELSE IF KeyOccurs(4) THEN IndustryBenchmarks.mining
    ELSE IF KeyOccurs(5) THEN IndustryBenchmarks.telecommunication
    ELSE IndustryBenchmarks.default

\* C25: the benchmark is that of the first key, in the order banking,
\* consumer, infrastructure, mining, telecommunication, that is a substring
\* of the lower-cased industry or sector, and the default one when no key
\* occurs; the valuation, the profitability and the financial-health
\* analysis of one profile all use this same benchmark
C25_SameBenchmark ==
    FundamentalReturned =>
        /\ result.valuation_analysis.pe_analysis.industry_low = DocBenchmark.pe_ratio[1]
        /\ result.valuation_analysis.pe_analysis.industry_high = DocBenchmark.pe_ratio[2]
        /\ result.valuation_analysis.pb_analysis.industry_low = DocBenchmark.pb_ratio[1]
        /\ result.valuation_analysis.pb_analysis.industry_high = DocBenchmark.pb_ratio[2]
        /\ result.profitability_analysis.roe_analysis.industry_average
              = DocBenchmark.roe_avg
        /\ result.financial_health_analysis.debt_analysis.industry_max
              = DocBenchmark.debt_to_equity[2]

\* the industry names consumer goods and the sector banking: banking comes first
C25_Witness ==
    /\ FundamentalReturned
    /\ KeyOccurs(1) /\ KeyOccurs(2)
    /\ ~Contains(BenchmarkKeys[1].chars, ProfileText("industry"))
    /\ result.valuation_analysis.pe_analysis.industry_high = 150
    /\ result.financial_health_analysis.debt_analysis.industry_max = 100

\* no industry and no sector, and names that contain no key: the default benchmark
C25_WitnessDefault ==
    /\ FundamentalReturned
    /\ ProfileText("industry") = <<>> /\ ProfileText("sector") = <<>>
    /\ result.valuation_analysis.pe_analysis.industry_low = 100

C25_WitnessNoMatch ==
    /\ FundamentalReturned
    /\ ProfileText("industry") # <<>>
    /\ \A k \in 1..5 : ~KeyOccurs(k)
    /\ result.valuation_analysis.pe_analysis.industry_low = 100

-----------------------------------------------------------------------------
(* Frame properties of the engine *)

\* C26: no input is changed by a later stage: from the call on,
\* generate_portfolio_recommendations leaves the caller's candidate list
\* (order, length, elements) and the engine's risk-profile table as they
\* were, and generate_comprehensive_recommendation and its stages leave the
\* technical verdict and the fundamental score card as they were
C26_InputsUntouched ==
    /\ (call = "generate_portfolio_recommendations" /\ pc \in {"alloc", "epilogue", "returned"})
          => /\ stocks_analysis = passed.stocks_analysis
             /\ risk_profiles = passed.risk_profiles
    /\ pc \in {"analysed", "returned"}
          => /\ technical_analysis = passed.technical_analysis
             /\ fundamental_analysis = passed.fundamental_analysis
             /\ risk_profiles = passed.risk_profiles

\* the allocator has returned two positions for a list that was not in score
\* order: the handler sorted, the caller's list is as it was
C26_Witness ==
    /\ call = "generate_portfolio_recommendations"
    /\ pc = "returned"
    /\ Len(result.portfolio_recommendations) >= 2
    /\ qualified_stocks # stocks_analysis
    /\ Len(qualified_stocks) = Len(stocks_analysis)
    /\ stocks_analysis = passed.stocks_analysis

\* the synthesizer has returned (raised) and its two inputs are as they were
C26_WitnessSynthesizer ==
    /\ call = "generate_comprehensive_recommendation"
    /\ pc = "returned"
    /\ passed.technical_analysis # EmptyDict
    /\ passed.fundamental_analysis # EmptyDict
    /\ technical_analysis = passed.technical_analysis

-----------------------------------------------------------------------------
(* Conservation of the capital *)

\* after the iterations made so far the remaining capital is the total
\* capital less the sum of the sizes, and lies between 0 and the total
C27_LoopConserves ==
    (call = "generate_portfolio_recommendations" /\ pc \in {"alloc", "epilogue"}
        /\ idx > 1) =>
        /\ Exact(remaining_capital) =
              Exact(total_capital) - SumSizes(portfolio_recommendations)
        /\ 0 <= Exact(remaining_capital)
        /\ Exact(remaining_capital) <= Exact(total_capital)

\* the returned plan adds up, counts its positions, and every size is
\* positive and at most the documented fraction of the capital
C27_PlanConserves ==
    PortfolioReturned =>
        /\ Exact(result.total_allocated) + Exact(result.remaining_capital)
              = Exact(total_capital)
        /\ result.number_of_positions = Len(result.portfolio_recommendations)
        /\ \A k \in 1..Len(result.portfolio_recommendations) :
              LET size == Exact(result.portfolio_recommendations[k].position_size)
              IN /\ size > 0
                 /\ 100 * size <= DocMaxPositionPct(risk_profile) * Exact(total_capital)

\* with a capital of zero or less the plan is empty (and a plan is returned)
C27_NoCapitalNoPlan ==
    (PortfolioReturned /\ Exact(total_capital) <= 0) =>
        /\ result.portfolio_recommendations = <<>>
        /\ result.number_of_positions = 0
        /\ Exact(result.total_allocated) = 0

\* C27: the allocator conserves the capital: after every loop iteration
\* remaining_capital = total_capital - (sum of the position sizes so far) and
\* 0 <= remaining_capital <= total_capital; in the returned plan
\* total_allocated + remaining_capital = total_capital, number_of_positions
\* is the number of listed positions and every size is > 0 and
\* <= max_position_size x total_capital; with a capital <= 0 the plan is empty
C27_CapitalConserved ==
    /\ C27_LoopConserves
    /\ C27_PlanConserves
    /\ C27_NoCapitalNoPlan

\* the parts of C27 that do not depend on the rounding of the products and
\* differences: the bounds of the remainder, the count, the positive sizes,
\* the empty plan
C27_Bookkeeping ==
    /\ (call = "generate_portfolio_recommendations" /\ pc \in {"alloc", "epilogue"}
          /\ idx > 1) =>
          /\ 0 <= Exact(remaining_capital)
          /\ Exact(remaining_capital) <= Exact(total_capital)
    /\ PortfolioReturned =>
          /\ result.number_of_positions = Len(result.portfolio_recommendations)
          /\ \A k \in 1..Len(result.portfolio_recommendations) :
                Exact(result.portfolio_recommendations[k].position_size) > 0
    /\ C27_NoCapitalNoPlan

-----------------------------------------------------------------------------
(* Actions that the built-in profiles can select *)

\* _get_final_recommendation has returned an action for a score in [0, 100]
ActionSelected ==
    /\ pc = "analysed"
    /\ final_recommendation # None
    /\ combined_score # None
    /\ combined_score.combined_score >= 0
    /\ combined_score.combined_score <= 10000

\* C28: under the three built-in profiles the action-selection step never
\* returns SELL for a combined score in [0, 100]; under conservative it
\* returns only STRONG_BUY, BUY or AVOID; WEAK_HOLD is returned only under
\* aggressive
C28_NeverSell ==
    (ActionSelected /\ risk_profile \in {"conservative", "moderate", "aggressive"}) =>
        /\ final_recommendation.action # "SELL"
        /\ combined_score.combined_score < 4000 => final_recommendation.action = "AVOID"
        /\ risk_profile = "conservative" =>
              final_recommendation.action \in {"STRONG_BUY", "BUY", "AVOID"}
        /\ final_recommendation.action = "WEAK_HOLD" => risk_profile = "aggressive"

\* a score between 50 and 60 under aggressive: WEAK_HOLD
C28_Witness ==
    /\ ActionSelected
    /\ risk_profile = "aggressive"
    /\ final_recommendation.action = "WEAK_HOLD"

\* a score below 40 under aggressive: AVOID, where the ladder alone says SELL
C28_WitnessLowScore ==
    /\ ActionSelected
    /\ risk_profile = "aggressive"
    /\ combined_score.combined_score < 4000
    /\ final_recommendation.action = "AVOID"

\* the three actions of conservative
C28_WitnessConservativeBuy ==
    /\ ActionSelected
    /\ risk_profile = "conservative"
    /\ final_recommendation.action = "BUY"

C28_WitnessConservativeStrongBuy ==
    /\ ActionSelected
    /\ risk_profile = "conservative"
    /\ final_recommendation.action = "STRONG_BUY"

C28_WitnessModerateHold ==
    /\ ActionSelected
    /\ risk_profile = "moderate"
    /\ final_recommendation.action = "HOLD"

-----------------------------------------------------------------------------
(* The risk/reward ratio of technical price targets *)

\* the signal the price targets of the verdict were built for
TargetsSignal ==
    Get(Get(technical_analysis, "signal_analysis", EmptyDict), "signal", "HOLD")

\* the risk block was computed from targets with a positive entry price
RiskBlockComputed ==
    /\ risk_management # None
    /\ RiskEntry > 0
    /\ risk_profile \in {"conservative", "moderate", "aggressive"}

\* C29: for price targets of the shape calculate_price_targets builds (BUY:
\* take_profit_1 = entry + 2 ATR, stop_loss = entry - 1.5 ATR; SELL: mirrored;
\* HOLD: neither), entry > 0 and ATR >= 0, under each built-in profile the
\* risk/reward ratio is >= 0 and < 3, the 1.2 multiplier is never applied,
\* the recommended size never exceeds the profile's maximum position, and
\* for SELL the ratio is 0 and the multiplier 0.5
C29_RatioBelowThree ==
    RiskBlockComputed =>
        /\ risk_management.risk_reward_ratio >= 0
        /\ risk_management.risk_reward_ratio < 300
        /\ risk_management.risk_amount > 0 =>
              /\ risk_management.reward_amount >= 0
              /\ risk_management.reward_amount < 3 * risk_management.risk_amount
        /\ risk_management.position_sizing.size_multiplier # 12
        /\ risk_management.position_sizing.recommended_size
              <= DocMaxPositionPct(risk_profile) * 10
        /\ TargetsSignal = "SELL" =>
              /\ risk_management.risk_reward_ratio = 0
              /\ risk_management.position_sizing.size_multiplier = 5

\* BUY targets wider than the conservative profile: ratio 15 / 8, multiplier 0.8
C29_Witness ==
    /\ RiskBlockComputed
    /\ TargetsSignal = "BUY"
    /\ risk_profile = "conservative"
    /\ RiskTargets.take_profit_1 = RiskEntry + 2 * RiskTargets.atr
    /\ risk_management.risk_reward_ratio = 188
    /\ risk_management.position_sizing.size_multiplier = 8

\* SELL targets: the stop lies above the entry, ratio 0, multiplier 0.5
C29_WitnessSell ==
    /\ RiskBlockComputed
    /\ TargetsSignal = "SELL"
    /\ RiskTargets.atr > 0
    /\ RiskTargets.stop_loss > RiskEntry
    /\ risk_management.risk_reward_ratio = 0
    /\ risk_management.position_sizing.size_multiplier = 5

\* HOLD targets under moderate: ratio 20 / 10, multiplier 1.0, the full size
C29_WitnessHold ==
    /\ RiskBlockComputed
    /\ TargetsSignal = "HOLD"
    /\ risk_profile = "moderate"
    /\ "stop_loss" \notin DOMAIN RiskTargets
    /\ risk_management.risk_reward_ratio = 200
    /\ risk_management.position_sizing.recommended_size = 80

-----------------------------------------------------------------------------
(* The number of positions of a plan *)

\* ceil(1 / max_position_size) of the documented table
DocMaxPositions(name) ==
    CASE name = "conservative" -> 20
      [] name = "aggressive" -> 9
      [] OTHER -> 13

\* the best diversification score a profile can reach: Excellent only under
\* conservative, Good under moderate, Moderate under aggressive
DocBestScore(name) ==
    CASE name = "conservative" -> 100
      [] name = "aggressive" -> 60
      [] OTHER -> 80

\* the status part of C30 alone
C30_BestStatus ==
    (PortfolioReturned /\ Exact(total_capital) > 0) =>
        result.diversification_score.score <= DocBestScore(risk_profile)

\* C30: for every candidate list and every capital > 0 the number of
\* positions is at most ceil(1 / max_position_size), 20 for conservative, 13
\* for moderate and 9 for aggressive, and so the status Excellent is reached
\* only under conservative, at best Good under moderate and at best Moderate
\* under aggressive
C30_PositionsBounded ==
    (PortfolioReturned /\ Exact(total_capital) > 0) =>
        /\ result.number_of_positions <= DocMaxPositions(risk_profile)
        /\ Len(result.portfolio_recommendations) <= DocMaxPositions(risk_profile)
        /\ result.diversification_score.score <= DocBestScore(risk_profile)

\* twenty-one positions under conservative
C30_TwentyOne ==
    /\ PortfolioReturned
    /\ risk_profile = "conservative"
    /\ result.number_of_positions = 21

\* the largest plans of the other profiles
C30_Thirteen ==
    /\ PortfolioReturned
    /\ risk_profile = "moderate"
    /\ result.number_of_positions = 13
    /\ result.diversification_score.status = "Good"

C30_Nine ==
    /\ PortfolioReturned
    /\ risk_profile = "aggressive"
    /\ result.number_of_positions = 9
    /\ result.diversification_score.status = "Moderate"

C30_ExcellentReached ==
    /\ PortfolioReturned
    /\ risk_profile = "conservative"
    /\ result.diversification_score.status = "Excellent"

====
